---- MODULE Spec2Model ----
(***************************************************************************)
(* Electric Maple streaming server: the multi-peer connection lifecycle    *)
(* (one webrtcbin per signalling client, attached to the shared tee) and   *)
(* the DownMessage multiplexer (rtppay_probe) of                           *)
(* server/src/ems/gst/ems_gstreamer_pipeline.c, together with the frame     *)
(* source ems_gstreamer_src_push_frame, the data-channel callbacks         *)
(* (open, close, keep-alive, inbound UpMessage) and the DownMessage loss   *)
(* monitor benchmark_down_msg_loss.                                        *)
(*                                                                         *)
(* Three kinds of thread act on the shared state:                          *)
(*   - the GLib main loop (loop_thread) runs the signalling callbacks;     *)
(*   - each webrtcbin runs its promise callbacks (on_offer_created) on its *)
(*     own thread;                                                         *)
(*   - the streaming thread started by the queue in front of rtph264pay    *)
(*     runs rtppay_probe, the tee, the blocking pad probes and the chain   *)
(*     function of every attached webrtcbin.                               *)
(***************************************************************************)
EXTENDS Integers, Sequences, FiniteSets, TLC

\* ---------------------------------------------------------------- bounds
NumClients == 2        \* signalling client identities 1..NumClients
MaxJoins == 2          \* ws-client-connected notifications delivered in a run
MaxProbes == 2         \* blocking probes waiting on one tee src pad
MaxQueue == 1          \* buffers waiting in appsrc
MaxErrors == 1         \* error lines of push_frame that are followed
MaxTs == 2             \* capture timestamps 0..MaxTs
MaxWindow == 4         \* ids in the loss window at a report
MaxTime == 5           \* the monotonic clock reads 0..MaxTime seconds
MaxMsgs == 2           \* tracking events handed to the callbacks in a run

\* ------------------------------------------------------ program constants
RTP_TWOBYTES_HDR_EXT_ID == 1
RTP_TWOBYTES_HDR_EXT_MAX_SIZE == 255
REPORT_INTERVAL_SECS == 5

Clients == 1..NumClients

\* A DownMessage payload of n bytes (the bytes differ from one another so
\* that truncation, reordering or substitution changes the value).
Bytes(n) == [i \in 1..n |-> (7 * i + n) % 256]

\* Sizes of the serialized DownMessages handed to push_frame.
PayloadSizes == {0, 1, RTP_TWOBYTES_HDR_EXT_MAX_SIZE, RTP_TWOBYTES_HDR_EXT_MAX_SIZE + 1}

\* No packet in hand: has_meta tells whether the buffer carries the custom
\* meta "down-message", meta is its "protobuf" field, maps the buffer
\* mappings that calls of rtppay_probe took and did not release.
NoPkt == [has_meta |-> FALSE, meta |-> <<>>, ext |-> <<>>, runs |-> 0, maps |-> {}]

\* No rate line printed yet.
NoLog == [count |-> 0, secs |-> 0, printed |-> FALSE]
NoRx == [e |-> 0, data |-> <<>>]
NoCandidate == [client_id |-> 0, candidate |-> "-"]
NoAnswer == [client_id |-> 0, sdp |-> "-"]

VARIABLES
    bins,            \* every webrtcbin created so far, by creation order
    conn,            \* identities whose signalling connection is open
    joinsLeft,       \* join notifications still to come
    data_channel,    \* egp->data_channel: webrtcbin whose channel is stored, 0 = NULL
    timeout_src_id,  \* egp->timeout_src_id: timer stored, 0 = none
    timers,          \* keep-alive timers registered with the main loop
    nprobes,         \* rtppay_probe instances installed on rtppay's src pad
    appsrc,          \* buffers pushed into appsrc, not yet packetized
    spc,             \* position of the streaming thread
    pkt,             \* the RTP packet the streaming thread is carrying
    cur,             \* webrtcbin whose chain function is running, 0 = none
    delivered,       \* webrtcbins that received the current packet
    dropped,         \* a probe has dropped an oversized DownMessage
    redundant,       \* identities that got a leave after their webrtcbin was removed
    crashed,         \* the process has aborted
    benchmark_down_msg,          \* ems_arguments_get()->benchmark_down_msg
    have_ever_sent_a_down_msg,   \* egp->have_ever_sent_a_down_msg
    last_print_time,             \* egp->last_print_time, in seconds
    sent_down_msg_list,          \* egp->sent_down_msg_list, head first
    skip_log,        \* the last "Skipping DownMsgs at rate" line: count and seconds
    now,             \* CLOCK_MONOTONIC, in seconds
    offset_ns,       \* gs->offset_ns
    timestamp_ns,    \* gs->timestamp_ns
    src_log,         \* the error lines logged by push_frame, oldest first
    mlpc,            \* position of the main loop: "idle", or "wait" in gst_promise_wait
    events,          \* the UpMessages handed to ems_callbacks_call, oldest first
    last_keepalive,  \* webrtcbin on whose data channel the last keep-alive was sent
    rx,              \* "on-message-data" being emitted: the webrtcbin and the bytes
    up_log,          \* error lines logged by data_channel_message_data_cb
    promise,         \* webrtcbin whose reply the main loop waits for, 0 if none
    bus_log,         \* bus messages gst_bus_cb has logged, oldest first
    xf_refs,         \* references push_frame took on frames and that are not released
    candidate_msg,   \* "candidate" being emitted by the signalling server
    ice,             \* add-ice-candidate calls: <<webrtcbin, client of the message, candidate>>
    sdp_answer,      \* "sdp-answer" being emitted by the signalling server
    images,          \* image pool: the used flag of each pooled image
    pool_mutex,      \* image pool: the thread holding pool_mutex, 0 when free
    callers,         \* image pool: each calling thread's position and locals
    held,            \* image pool: the images each thread was handed and has not released
    property_result,   \* system properties: static std::string property_result
    property_received, \* system properties: static std::atomic_bool property_received
    read_callbacks,    \* system properties: the read callbacks requested and not yet run
    reader,            \* system properties: the read_system_property call, its position and locals
    passthrough,       \* client: the FBPassthrough object, its fields and its XR objects
    blend_call,        \* client: the last call of Passthrough::set_blend_mode and its result
    stop_pc          \* ems_gstreamer_pipeline_stop: "playing" (not called), "eos_sent",
                     \* "eos_on_bus" (the EOS message waits on the bus), "stopped"

\* The loss window of benchmark_down_msg_loss.
lossVars == <<have_ever_sent_a_down_msg, last_print_time, sent_down_msg_list, skip_log>>

\* The state of the frame source.
srcVars == <<offset_ns, timestamp_ns, src_log>>

\* The image pool (ems_vk_cuda_image_pool.cpp).
poolVars == <<images, pool_mutex, callers, held>>

\* The state of the components beside the pipeline.
\* The system property reader (em_system_properties).
propVars == <<property_result, property_received, read_callbacks, reader>>

\* The client's passthrough (em_passthrough).
ptVars == <<passthrough, blend_call>>

extVars == <<poolVars, propVars, ptVars>>

mainVars == <<benchmark_down_msg, now, mlpc, events, last_keepalive, rx, up_log, promise,
             bus_log, candidate_msg, ice, sdp_answer, stop_pc, extVars>>

auxVars == <<mainVars, xf_refs>>

vars == <<bins, conn, joinsLeft, data_channel, timeout_src_id,
          timers, nprobes, appsrc, spc, pkt, cur, delivered, dropped, redundant, crashed,
          lossVars, srcVars, auxVars>>

\* The state of the pipeline.
coreVars == <<bins, conn, joinsLeft, data_channel, timeout_src_id,
              timers, nprobes, appsrc, spc, pkt, cur, delivered, dropped, redundant, crashed,
              lossVars, srcVars, xf_refs,
              benchmark_down_msg, now, mlpc, events, last_keepalive, rx, up_log, promise,
              bus_log, candidate_msg, ice, sdp_answer, stop_pc>>

\* Threads calling into the image pool, and the pool_size of its create info.
NumThreads == 2
PoolSize == 2
Threads == 1..NumThreads

\* Image pointers: 0 is nullptr, 1..PoolSize are &images[i].base, and
\* PoolSize + 1 is a vk_cuda_image that is not in the pool.
PoolImages == 1..PoolSize
ImagePointers == 0..(PoolSize + 1)

\* A thread outside the pool's functions.
Idle == [pc |-> "idle", image |-> 0, ret |-> 0]

\* ems_vk_cuda_image_pool_create: pool_size images, none of them used.
ems_vk_cuda_image_pool_create ==
    /\ images = [i \in PoolImages |-> FALSE]
    /\ pool_mutex = 0
    /\ callers = [t \in Threads |-> Idle]
    /\ held = [t \in Threads |-> {}]

\* Longest timeout_ms passed to read_system_property, in polls of its loop.
MaxTimeoutMs == 2

\* The system properties of the device: two that are set, one that is not.
\* nullptr stands for a null property_name.
PropertyNames == {"debug.em.a", "debug.em.b", "debug.em.unset"}
nullptr == "nullptr"
system_property(name) ==
    CASE name = "debug.em.a" -> "1.5"
      [] name = "debug.em.b" -> "0,1,2"
      [] OTHER -> ""

\* __system_property_find: whether the property has a prop_info.
system_property_find(name) == system_property(name) # ""

\* The statics of the property reader at program start, with no call made.
InitProp ==
    /\ property_result = ""
    /\ property_received = FALSE
    /\ read_callbacks = {}
    /\ reader = [pc |-> "idle", property_name |-> nullptr, timeout_ms |-> 0,
                 wait_duration_ms |-> 0, ret |-> ""]

\* Calls of Passthrough::set_blend_mode followed.
MaxBlendCalls == 5

\* XrEnvironmentBlendMode
BlendModes == {"OPAQUE", "ADDITIVE", "ALPHA_BLEND"}

\* The client before it has made its passthrough object.
InitPassthrough ==
    /\ passthrough = [constructed |-> FALSE, xr_valid |-> FALSE, m_eb_mode |-> "OPAQUE",
                      m_recon_pt_layer |-> FALSE, started |-> FALSE, resumed |-> FALSE]
    /\ blend_call = [n |-> 0, new_mode |-> "OPAQUE", handler |-> "not called", ret |-> FALSE]

\* The components beside the pipeline after construction.
InitExt == ems_vk_cuda_image_pool_create /\ InitProp /\ InitPassthrough


Elems == DOMAIN bins

\* g_strdup_printf("webrtcbin_%p", client_id)
webrtcbin_name(c) == <<"webrtcbin_", c>>

\* The lookup as it would be if the name did not carry the client identity:
\* the first webrtcbin of the pipeline.
get_webrtcbin_any(c) ==
    IF \E e \in Elems : bins[e].inBin
    THEN CHOOSE e \in Elems : bins[e].inBin /\ \A f \in Elems : bins[f].inBin => e <= f
    ELSE 0

\* gst_bin_get_by_name on the pipeline: the child of that name, 0 = NULL.
get_webrtcbin_for_client(c) ==
    IF \E e \in Elems : bins[e].inBin /\ webrtcbin_name(bins[e].client) = webrtcbin_name(c)
    THEN CHOOSE e \in Elems : bins[e].inBin /\ webrtcbin_name(bins[e].client) = webrtcbin_name(c)
    ELSE 0

\* A webrtcbin that was removed from the pipeline and set to GST_STATE_NULL.
REMOVED(e) == ~bins[e].inBin /\ bins[e].state = "NULL"

\* gst_bin_add(pipeline, webrtcbin) refuses a child whose name is taken.
gst_bin_add(c) ==
    ~\E e \in Elems : bins[e].inBin /\ webrtcbin_name(bins[e].client) = webrtcbin_name(c)

\* Identities the signalling server has announced so far.
Seen == conn \cup {bins[e].client : e \in Elems}

\* A client identity is the address of the signalling server's connection
\* object and is only ever compared for equality: an identity that joins for
\* the first time is taken to be the lowest one not seen yet.
Fresh(c) == c \in Seen \/ \A d \in Clients \ Seen : c <= d

\* The pipeline after ems_gstreamer_pipeline_create, whatever the arguments.
InitPipeline ==
    /\ bins = <<>>
    /\ conn = {}
    /\ joinsLeft = MaxJoins
    /\ data_channel = 0
    /\ timeout_src_id = 0
    /\ timers = {}
    /\ nprobes = 0
    /\ appsrc = <<>>
    /\ spc = "idle"
    /\ pkt = NoPkt
    /\ cur = 0
    /\ delivered = {}
    /\ dropped = FALSE
    /\ redundant = {}
    /\ crashed = FALSE
    /\ have_ever_sent_a_down_msg = FALSE
    /\ last_print_time = 0
    /\ sent_down_msg_list = <<>>
    /\ skip_log = NoLog
    /\ now = 0
    /\ offset_ns = 0
    /\ timestamp_ns = 0
    /\ src_log = <<>>
    /\ mlpc = "idle"
    /\ events = <<>>
    /\ last_keepalive = 0
    /\ rx = NoRx
    /\ up_log = 0
    /\ promise = 0
    /\ bus_log = <<>>
    /\ xf_refs = 0
    /\ candidate_msg = NoCandidate
    /\ ice = {}
    /\ sdp_answer = NoAnswer
    /\ stop_pc = "playing"
    /\ InitExt

\* Started without --benchmark-down-msg (the default).
Init == InitPipeline /\ benchmark_down_msg = FALSE

\* Started with --benchmark-down-msg.
InitBenchmark == InitPipeline /\ benchmark_down_msg = TRUE

\* The webrtcbin as it would be if it were linked to the tee when it is
\* created.
new_webrtcbin_linked(c, added) ==
    [client |-> c, inBin |-> added, state |-> "PLAYING", offer |-> "pending",
     localDesc |-> "none", remoteDesc |-> FALSE, pad |-> added, linked |-> added,
     probes |-> 0, chan |-> "connecting", offers |-> <<>>]

\* The webrtcbin built by webrtc_client_connected_cb.  added = FALSE when
\* gst_bin_add refused it (a child of that name exists): the bin then drops
\* the only reference and the handler goes on using the freed element.
new_webrtcbin(c, added) ==
    [client |-> c, inBin |-> added, state |-> "PLAYING", offer |-> "pending",
     localDesc |-> "none", remoteDesc |-> FALSE, pad |-> FALSE, linked |-> FALSE,
     probes |-> 0, chan |-> "connecting", offers |-> <<>>]

ems_gstreamer_pipeline_add_payload_pad_probe == nprobes + 1

\* What the handler meets: whether "create-data-channel" hands back a
\* channel, and whether the build keeps assert() (no NDEBUG).
JoinOk == [data_channel |-> TRUE, asserts |-> TRUE]
JoinEnvs == [data_channel : BOOLEAN, asserts : BOOLEAN]

\* ws-client-connected.  When no data channel comes back the handler logs
\* and runs assert(false): the process aborts, or, in a build without
\* assert, the handler goes on with egp->data_channel = NULL and none of the
\* channel's signals connected, and still asks for the offer.
client_connected(c, env) ==
    /\ ~crashed
    /\ mlpc = "idle"
    /\ joinsLeft > 0
    /\ c \notin conn
    /\ Fresh(c)
    /\ LET added == gst_bin_add(c) IN
         /\ \/ /\ env.data_channel
               /\ bins' = Append(bins, new_webrtcbin(c, added))
               /\ data_channel' = Len(bins) + 1
               /\ nprobes' = ems_gstreamer_pipeline_add_payload_pad_probe
               /\ have_ever_sent_a_down_msg' = FALSE
               /\ crashed' = FALSE
            \/ /\ ~env.data_channel /\ ~env.asserts
               /\ bins' = Append(bins, [new_webrtcbin(c, added) EXCEPT !.chan = "none"])
               /\ data_channel' = 0
               /\ nprobes' = ems_gstreamer_pipeline_add_payload_pad_probe
               /\ have_ever_sent_a_down_msg' = FALSE
               /\ crashed' = FALSE
            \/ /\ ~env.data_channel /\ env.asserts
               /\ crashed' = TRUE
               /\ UNCHANGED <<bins, data_channel, nprobes, have_ever_sent_a_down_msg>>
            \/ /\ ~added
               /\ crashed' = TRUE
               /\ UNCHANGED <<bins, data_channel, nprobes, have_ever_sent_a_down_msg>>
    /\ conn' = conn \cup {c}
    /\ joinsLeft' = joinsLeft - 1
    /\ UNCHANGED <<timeout_src_id, timers>>
    /\ UNCHANGED <<appsrc, spc, pkt, cur, delivered, dropped, redundant>>
    /\ UNCHANGED <<last_print_time, sent_down_msg_list, skip_log, srcVars, auxVars>>

\* The handler when the data channel is created.
webrtc_client_connected_cb(c) == client_connected(c, JoinOk)

\* connect_webrtc_to_tee: nothing when the webrtcbin has no parent; otherwise
\* request tee.src_%u and webrtcbin.sink_0 and link them.
connect_webrtc_to_tee(w) ==
    IF ~w.inBin THEN w ELSE [w EXCEPT !.pad = TRUE, !.linked = TRUE]

\* The offer as it would be addressed if the handler used the client that
\* joined last instead of the one stored on the webrtcbin.
send_sdp_offer_last(e) == Append(bins[e].offers, bins[Len(bins)].client)

\* ems_signaling_server_send_sdp_offer(signaling_server,
\*     g_object_get_data(webrtcbin, "client_id"), sdp):
\* the offers sent on behalf of webrtcbin e, each with its addressee.
send_sdp_offer(e) == Append(bins[e].offers, bins[e].client)

\* Promise callback of "create-offer", on the webrtcbin's own thread.
\* "set-local-description" is emitted with a NULL promise: the request is
\* queued on the webrtcbin and nothing waits for it (compare
\* webrtc_sdp_answer_cb, which passes a promise and waits on it).
on_offer_created(e) ==
    /\ ~crashed
    /\ e \in Elems
    /\ bins[e].offer = "pending"
    /\ bins' = [bins EXCEPT ![e] =
                  connect_webrtc_to_tee([@ EXCEPT !.offer = "created",
                                                  !.localDesc = "requested",
                                                  !.offers = send_sdp_offer(e)])]
    /\ UNCHANGED <<conn, joinsLeft, data_channel, timeout_src_id,
                   timers, nprobes, crashed>>
    /\ UNCHANGED <<appsrc, spc, pkt, cur, delivered, dropped, redundant>>
    /\ UNCHANGED <<lossVars, srcVars, auxVars>>

\* The webrtcbin carries out the queued set-local-description request.
set_local_description(e) ==
    /\ ~crashed
    /\ e \in Elems
    /\ bins[e].localDesc = "requested"
    /\ bins' = [bins EXCEPT ![e].localDesc = "set"]
    /\ UNCHANGED <<conn, joinsLeft, data_channel, timeout_src_id,
                   timers, nprobes, crashed>>
    /\ UNCHANGED <<appsrc, spc, pkt, cur, delivered, dropped, redundant>>
    /\ UNCHANGED <<lossVars, srcVars, auxVars>>

\* The peer answers an offer it was sent.  The handler emits
\* "set-remote-description" with a promise and waits for it; the webrtcbin
\* serves its requests in order, so a set-local-description still queued is
\* carried out first.  This is the handler together with the webrtcbin's
\* reply, in one step; webrtc_sdp_answer_cb_wait and gst_promise_reply are
\* its two halves.
webrtc_sdp_answer_cb(c) ==
    /\ ~crashed
    /\ mlpc = "idle"
    /\ c \in conn
    /\ LET e == get_webrtcbin_for_client(c) IN
         /\ e # 0
         /\ bins[e].offer = "created"
         /\ ~bins[e].remoteDesc
         /\ bins' = [bins EXCEPT ![e].remoteDesc = TRUE, ![e].localDesc = "set"]
    /\ UNCHANGED <<conn, joinsLeft, data_channel, timeout_src_id,
                   timers, nprobes, crashed>>
    /\ UNCHANGED <<appsrc, spc, pkt, cur, delivered, dropped, redundant>>
    /\ UNCHANGED <<lossVars, srcVars, auxVars>>

\* The first half of webrtc_sdp_answer_cb, up to its wait:
\* g_signal_emit_by_name(webrtcbin, "set-remote-description", desc, promise);
\* gst_promise_wait(promise);
\* The main loop runs no other handler until the promise is replied to.
webrtc_sdp_answer_cb_wait(c) ==
    /\ ~crashed
    /\ mlpc = "idle"
    /\ c \in conn
    /\ LET e == get_webrtcbin_for_client(c) IN
         /\ e # 0
         /\ bins[e].offer = "created"
         /\ ~bins[e].remoteDesc
         /\ promise' = e
    /\ mlpc' = "wait"
    /\ UNCHANGED <<bins, conn, joinsLeft, data_channel, timeout_src_id,
                   timers, nprobes, crashed>>
    /\ UNCHANGED <<appsrc, spc, pkt, cur, delivered, dropped, redundant>>
    /\ UNCHANGED <<lossVars, srcVars>>
    /\ UNCHANGED <<benchmark_down_msg, now, events, last_keepalive, rx, up_log, bus_log, xf_refs,
                   candidate_msg, ice, sdp_answer, stop_pc, extVars>>

\* The webrtcbin carries out the requests queued before this one, then this
\* one, and replies to the promise: gst_promise_wait returns and the handler
\* runs to its end.
gst_promise_reply ==
    /\ ~crashed
    /\ mlpc = "wait"
    /\ bins' = [bins EXCEPT ![promise].remoteDesc = TRUE, ![promise].localDesc = "set"]
    /\ promise' = 0
    /\ mlpc' = "idle"
    /\ UNCHANGED <<conn, joinsLeft, data_channel, timeout_src_id,
                   timers, nprobes, crashed>>
    /\ UNCHANGED <<appsrc, spc, pkt, cur, delivered, dropped, redundant>>
    /\ UNCHANGED <<lossVars, srcVars>>
    /\ UNCHANGED <<benchmark_down_msg, now, events, last_keepalive, rx, up_log, bus_log, xf_refs,
                   candidate_msg, ice, sdp_answer, stop_pc, extVars>>

\* "on-open" of the data channel of webrtcbin e:
\* egp->timeout_src_id = g_timeout_add_seconds(3, datachannel_send_message, ch)
data_channel_open_cb(e) ==
    /\ ~crashed
    /\ e \in Elems
    /\ bins[e].chan = "connecting"
    /\ bins[e].remoteDesc
    /\ bins[e].state = "PLAYING"
    /\ bins' = [bins EXCEPT ![e].chan = "open"]
    /\ timers' = timers \cup {e}
    /\ timeout_src_id' = e
    /\ UNCHANGED <<conn, joinsLeft, data_channel, nprobes, crashed>>
    /\ UNCHANGED <<appsrc, spc, pkt, cur, delivered, dropped, redundant>>
    /\ UNCHANGED <<lossVars, srcVars, auxVars>>

\* "on-close" of the data channel of webrtcbin e:
\* g_clear_handle_id(&egp->timeout_src_id, g_source_remove);
\* g_clear_object(&egp->data_channel);
data_channel_close_cb(e) ==
    /\ ~crashed
    /\ e \in Elems
    /\ bins[e].chan = "open"
    /\ bins' = [bins EXCEPT ![e].chan = "closed"]
    /\ timers' = timers \ {timeout_src_id}
    /\ timeout_src_id' = 0
    /\ data_channel' = 0
    /\ UNCHANGED <<conn, joinsLeft, nprobes, crashed>>
    /\ UNCHANGED <<appsrc, spc, pkt, cur, delivered, dropped, redundant>>
    /\ UNCHANGED <<lossVars, srcVars, auxVars>>

\* SDP texts a peer may send as its answer, and what
\* gst_sdp_message_new_from_text makes of them.
Sdps == {"v=0 (answer)", ""}

gst_sdp_message_new_from_text(sdp) ==
    IF sdp = "" THEN "GST_SDP_EINVAL" ELSE "GST_SDP_OK"

\* The signalling server emits "sdp-answer" for a message of client c: an
\* answer to an offer the client was sent, or any message of a client that
\* has no webrtcbin.
sdp_answer_msg(c, sdp) ==
    /\ ~crashed
    /\ sdp_answer = NoAnswer
    /\ LET e == get_webrtcbin_for_client(c) IN
         e # 0 => (bins[e].offers # <<>> /\ ~bins[e].remoteDesc)
    /\ sdp_answer' = [client_id |-> c, sdp |-> sdp]
    /\ UNCHANGED <<bins, conn, joinsLeft, data_channel, timeout_src_id,
                   timers, nprobes, crashed>>
    /\ UNCHANGED <<appsrc, spc, pkt, cur, delivered, dropped, redundant>>
    /\ UNCHANGED <<lossVars, srcVars, xf_refs>>
    /\ UNCHANGED <<benchmark_down_msg, now, mlpc, events, last_keepalive, rx, up_log, promise,
                   bus_log, candidate_msg, ice, stop_pc, extVars>>

\* The handler as it would be without the test of the parser's result.
webrtc_sdp_answer_cb_unparsed ==
    /\ ~crashed
    /\ mlpc = "idle"
    /\ sdp_answer # NoAnswer
    /\ LET webrtcbin == get_webrtcbin_for_client(sdp_answer.client_id) IN
         IF webrtcbin # 0
         THEN promise' = webrtcbin /\ mlpc' = "wait"
         ELSE UNCHANGED <<promise, mlpc>>
    /\ sdp_answer' = NoAnswer
    /\ UNCHANGED <<bins, conn, joinsLeft, data_channel, timeout_src_id,
                   timers, nprobes, crashed>>
    /\ UNCHANGED <<appsrc, spc, pkt, cur, delivered, dropped, redundant>>
    /\ UNCHANGED <<lossVars, srcVars, xf_refs>>
    /\ UNCHANGED <<benchmark_down_msg, now, events, last_keepalive, rx, up_log,
                   bus_log, candidate_msg, ice, stop_pc, extVars>>

\* webrtc_sdp_answer_cb on the message in hand, up to its wait: a text that
\* does not parse, or a client with no webrtcbin in the pipeline, goes to
\* `out`; otherwise "set-remote-description" is emitted on the client's
\* webrtcbin and the handler waits for the promise (gst_promise_reply is the
\* rest of it).
webrtc_sdp_answer_cb_sdp ==
    /\ ~crashed
    /\ mlpc = "idle"
    /\ sdp_answer # NoAnswer
    /\ LET webrtcbin == get_webrtcbin_for_client(sdp_answer.client_id) IN
         IF gst_sdp_message_new_from_text(sdp_answer.sdp) = "GST_SDP_OK" /\ webrtcbin # 0
         THEN promise' = webrtcbin /\ mlpc' = "wait"
         ELSE UNCHANGED <<promise, mlpc>>
    /\ sdp_answer' = NoAnswer
    /\ UNCHANGED <<bins, conn, joinsLeft, data_channel, timeout_src_id,
                   timers, nprobes, crashed>>
    /\ UNCHANGED <<appsrc, spc, pkt, cur, delivered, dropped, redundant>>
    /\ UNCHANGED <<lossVars, srcVars, xf_refs>>
    /\ UNCHANGED <<benchmark_down_msg, now, events, last_keepalive, rx, up_log,
                   bus_log, candidate_msg, ice, stop_pc, extVars>>

\* Candidate strings a peer may send; the empty one marks the end of its
\* candidates.
Candidates == {"", "candidate:1 1 UDP 1 192.0.2.1 9 typ host"}

\* The signalling server emits "candidate" for a message of client c.
candidate(c, cand) ==
    /\ ~crashed
    /\ candidate_msg = NoCandidate
    /\ candidate_msg' = [client_id |-> c, candidate |-> cand]
    /\ UNCHANGED <<bins, conn, joinsLeft, data_channel, timeout_src_id,
                   timers, nprobes, crashed>>
    /\ UNCHANGED <<appsrc, spc, pkt, cur, delivered, dropped, redundant>>
    /\ UNCHANGED <<lossVars, srcVars, xf_refs>>
    /\ UNCHANGED <<benchmark_down_msg, now, mlpc, events, last_keepalive, rx, up_log, promise,
                   bus_log, ice, sdp_answer, stop_pc, extVars>>

\* webrtc_candidate_cb: when the candidate string is not empty and a
\* webrtcbin of the client's name is in the pipeline, emit "add-ice-candidate"
\* on it; otherwise nothing.
webrtc_candidate_cb ==
    /\ ~crashed
    /\ mlpc = "idle"
    /\ candidate_msg # NoCandidate
    /\ LET webrtcbin == get_webrtcbin_for_client(candidate_msg.client_id) IN
         ice' = IF candidate_msg.candidate # "" /\ webrtcbin # 0
                THEN ice \cup {<<webrtcbin, candidate_msg.client_id, candidate_msg.candidate>>}
                ELSE ice
    /\ candidate_msg' = NoCandidate
    /\ UNCHANGED <<bins, conn, joinsLeft, data_channel, timeout_src_id,
                   timers, nprobes, crashed>>
    /\ UNCHANGED <<appsrc, spc, pkt, cur, delivered, dropped, redundant>>
    /\ UNCHANGED <<lossVars, srcVars, xf_refs>>
    /\ UNCHANGED <<benchmark_down_msg, now, mlpc, events, last_keepalive, rx, up_log, promise,
                   bus_log, sdp_answer, stop_pc, extVars>>

\* Messages an element of the pipeline may post on the bus: an error with
\* its domain and code, a warning, or end of stream.
BusMessages ==
    [type : {"GST_MESSAGE_ERROR"},
     domain : {"GST_STREAM_ERROR", "GST_LIBRARY_ERROR"},
     code : {"FAILED", "ENCODE"}]
    \cup {[type |-> t, domain |-> "", code |-> ""] :
             t \in {"GST_MESSAGE_WARNING", "GST_MESSAGE_EOS"}}

\* gst_bus_cb, the bus watch on the main loop.  An error is logged, and
\* exit(EXIT_FAILURE) is called when its domain is GST_STREAM_ERROR and its
\* code GST_STREAM_ERROR_FAILED; a warning is logged; end of stream is
\* g_error, which aborts.
gst_bus_cb(message) ==
    /\ ~crashed
    /\ mlpc = "idle"
    /\ Len(bus_log) < MaxErrors
    /\ bus_log' = Append(bus_log, message)
    /\ crashed' = \/ /\ message.type = "GST_MESSAGE_ERROR"
                     /\ message.domain = "GST_STREAM_ERROR"
                     /\ message.code = "FAILED"
                  \/ message.type = "GST_MESSAGE_EOS"
    /\ UNCHANGED <<bins, conn, joinsLeft, data_channel, timeout_src_id, timers, nprobes>>
    /\ UNCHANGED <<appsrc, spc, pkt, cur, delivered, dropped, redundant>>
    /\ UNCHANGED <<lossVars, srcVars>>
    /\ UNCHANGED <<benchmark_down_msg, now, mlpc, events, last_keepalive, rx, up_log, promise, xf_refs,
                   candidate_msg, ice, sdp_answer, stop_pc, extVars>>

\* The end-of-stream message of the pipeline.
GST_MESSAGE_EOS == [type |-> "GST_MESSAGE_EOS", domain |-> "", code |-> ""]

\* ems_gstreamer_pipeline_stop, called by the application on its own thread,
\* up to its wait: gst_element_send_event(pipeline, gst_event_new_eos()),
\* then gst_bus_timed_pop_filtered(bus, 3 s, EOS | ERROR).
ems_gstreamer_pipeline_stop ==
    /\ ~crashed
    /\ stop_pc = "playing"
    /\ stop_pc' = "eos_sent"
    /\ UNCHANGED <<bins, conn, joinsLeft, data_channel, timeout_src_id,
                   timers, nprobes, crashed>>
    /\ UNCHANGED <<appsrc, spc, pkt, cur, delivered, dropped, redundant>>
    /\ UNCHANGED <<lossVars, srcVars, xf_refs>>
    /\ UNCHANGED <<benchmark_down_msg, now, mlpc, events, last_keepalive, rx,
                   up_log, promise, bus_log, candidate_msg, ice, sdp_answer, extVars>>

\* The end of stream has gone through the pipeline: the pipeline posts
\* GST_MESSAGE_EOS on its bus.
gst_bus_post_eos ==
    /\ ~crashed
    /\ stop_pc = "eos_sent"
    /\ stop_pc' = "eos_on_bus"
    /\ UNCHANGED <<bins, conn, joinsLeft, data_channel, timeout_src_id,
                   timers, nprobes, crashed>>
    /\ UNCHANGED <<appsrc, spc, pkt, cur, delivered, dropped, redundant>>
    /\ UNCHANGED <<lossVars, srcVars, xf_refs>>
    /\ UNCHANGED <<benchmark_down_msg, now, mlpc, events, last_keepalive, rx,
                   up_log, promise, bus_log, candidate_msg, ice, sdp_answer, extVars>>

\* The rest of ems_gstreamer_pipeline_stop: gst_bus_timed_pop_filtered
\* returns, with the message popped from the bus or with NULL after 3
\* seconds, and the pipeline is set to GST_STATE_NULL.
gst_bus_timed_pop_filtered ==
    /\ ~crashed
    /\ stop_pc \in {"eos_sent", "eos_on_bus"}
    /\ stop_pc' = "stopped"
    /\ UNCHANGED <<bins, conn, joinsLeft, data_channel, timeout_src_id,
                   timers, nprobes, crashed>>
    /\ UNCHANGED <<appsrc, spc, pkt, cur, delivered, dropped, redundant>>
    /\ UNCHANGED <<lossVars, srcVars, xf_refs>>
    /\ UNCHANGED <<benchmark_down_msg, now, mlpc, events, last_keepalive, rx,
                   up_log, promise, bus_log, candidate_msg, ice, sdp_answer, extVars>>

\* The bus watch of the main loop (gst_bus_add_watch) takes the EOS message
\* that waits on the bus and hands it to gst_bus_cb.
gst_bus_watch_eos ==
    /\ stop_pc = "eos_on_bus"
    /\ gst_bus_cb(GST_MESSAGE_EOS)

\* The keep-alive timer started at "on-open" of the data channel of webrtcbin
\* e fires: datachannel_send_message sends a string and a byte message on
\* that channel and returns G_SOURCE_CONTINUE.
datachannel_send_message(e) ==
    /\ ~crashed
    /\ mlpc = "idle"
    /\ e \in timers
    /\ last_keepalive' = e
    /\ UNCHANGED <<bins, conn, joinsLeft, data_channel, timeout_src_id,
                   timers, nprobes, crashed>>
    /\ UNCHANGED <<appsrc, spc, pkt, cur, delivered, dropped, redundant>>
    /\ UNCHANGED <<lossVars, srcVars>>
    /\ UNCHANGED <<benchmark_down_msg, now, mlpc, events, rx, up_log, promise, bus_log, xf_refs,
                   candidate_msg, ice, sdp_answer, stop_pc, extVars>>

\* A leave for an identity all of whose webrtcbins are already REMOVED.
RedundantLeave(c) ==
    /\ \E e \in Elems : bins[e].client = c
    /\ \A e \in Elems : bins[e].client = c => REMOVED(e)

\* The handler as it would be if it tore the webrtcbin down at once, from the
\* main loop, instead of from a blocking probe.
webrtc_client_disconnected_cb_noblock(c) ==
    /\ ~crashed
    /\ mlpc = "idle"
    /\ conn' = conn \ {c}
    /\ redundant' = IF RedundantLeave(c) THEN redundant \cup {c} ELSE redundant
    /\ LET e == get_webrtcbin_for_client(c) IN
         IF e # 0
         THEN bins' = [bins EXCEPT ![e].inBin = FALSE,
                                   ![e].linked = FALSE, ![e].state = "NULL"]
         ELSE bins' = bins
    /\ UNCHANGED <<joinsLeft, data_channel, timeout_src_id, timers, nprobes, crashed>>
    /\ UNCHANGED <<appsrc, spc, pkt, cur, delivered, dropped>>
    /\ UNCHANGED <<lossVars, srcVars, auxVars>>

\* The handler as it would be without the test of the looked-up webrtcbin:
\* gst_element_get_static_pad on NULL.
webrtc_client_disconnected_cb_nocheck(c) ==
    /\ ~crashed
    /\ mlpc = "idle"
    /\ conn' = conn \ {c}
    /\ redundant' = IF RedundantLeave(c) THEN redundant \cup {c} ELSE redundant
    /\ LET e == get_webrtcbin_for_client(c) IN
         IF e # 0
         THEN /\ bins[e].probes < MaxProbes
              /\ bins' = [bins EXCEPT ![e].probes = IF bins[e].pad /\ bins[e].linked
                                                    THEN @ + 1 ELSE @]
              /\ crashed' = crashed
         ELSE /\ bins' = bins
              /\ crashed' = TRUE
    /\ UNCHANGED <<joinsLeft, data_channel, timeout_src_id, timers, nprobes>>
    /\ UNCHANGED <<appsrc, spc, pkt, cur, delivered, dropped>>
    /\ UNCHANGED <<lossVars, srcVars, auxVars>>

\* ws-client-disconnected: look the webrtcbin up by name; when it has a
\* sink_0 pad, install a blocking probe on that pad's peer (the tee src pad).
\* gst_pad_add_probe on a NULL peer installs nothing.  (At most MaxProbes
\* probes are let to wait on one pad.)
webrtc_client_disconnected_cb(c) ==
    /\ ~crashed
    /\ mlpc = "idle"
    /\ conn' = conn \ {c}
    /\ redundant' = IF RedundantLeave(c) THEN redundant \cup {c} ELSE redundant
    /\ LET e == get_webrtcbin_for_client(c) IN
         IF e # 0
         THEN /\ bins[e].probes < MaxProbes
              /\ bins' = [bins EXCEPT ![e].probes = IF bins[e].pad /\ bins[e].linked
                                                    THEN @ + 1 ELSE @]
         ELSE bins' = bins
    /\ UNCHANGED <<joinsLeft, data_channel, timeout_src_id, timers, nprobes, crashed>>
    /\ UNCHANGED <<appsrc, spc, pkt, cur, delivered, dropped>>
    /\ UNCHANGED <<lossVars, srcVars, auxVars>>

\* ------------------------------------------------------------ frame source
\* ems_gstreamer_src_push_frame(gs, xf, downMsg_bytes): wrap the frame, attach
\* the DownMessage bytes as the custom meta "down-message" and push the buffer
\* into appsrc.
\*
\* What the library calls inside one push return: gst_buffer_new_memdup,
\* gst_buffer_add_custom_meta (NULL when the meta "down-message" is not
\* registered) and gst_app_src_push_buffer.
PushOk == [struct_buf |-> TRUE, custom_meta |-> TRUE, ret |-> "GST_FLOW_OK"]

PushEnvs ==
    [struct_buf : BOOLEAN, custom_meta : BOOLEAN, ret : {"GST_FLOW_OK", "GST_FLOW_FLUSHING"}]

\* The presentation timestamp as it would be without the first frame taken
\* as offset.
GST_BUFFER_PTS_nolatch(ts) == ts - offset_ns

\* if (gs->offset_ns == 0) gs->offset_ns = xtimestamp_ns;
\* GST_BUFFER_PTS(buffer) = xtimestamp_ns - gs->offset_ns;
\* (uint64_t; capture timestamps are monotonic, so the difference never wraps)
GST_BUFFER_PTS(ts) == ts - (IF offset_ns = 0 THEN ts ELSE offset_ns)

\* The duration as it would be at a fixed frame rate.
GST_BUFFER_DURATION_fixed_rate(ts) == 1

\* GST_BUFFER_DURATION(buffer) = xtimestamp_ns - gs->timestamp_ns;
GST_BUFFER_DURATION(ts) == ts - timestamp_ns

\* The push as it would be if a rejected buffer were fatal.
push_frame_fatal(ts, downMsg_bytes, env) ==
    /\ ~crashed
    /\ ts >= timestamp_ns
    /\ offset_ns' = IF offset_ns = 0 THEN ts ELSE offset_ns
    /\ timestamp_ns' = ts
    /\ IF ~env.struct_buf
       THEN /\ Len(src_log) < MaxErrors
            /\ src_log' = Append(src_log, [err |-> "struct_buf", ts |-> ts])
            /\ xf_refs' = xf_refs + 1
            /\ UNCHANGED <<appsrc, crashed>>
       ELSE IF ~env.custom_meta
       THEN /\ Len(src_log) < MaxErrors
            /\ src_log' = Append(src_log, [err |-> "custom_meta", ts |-> ts])
            /\ xf_refs' = xf_refs + 1
            /\ UNCHANGED <<appsrc, crashed>>
       ELSE IF env.ret = "GST_FLOW_OK"
       THEN /\ Len(appsrc) < MaxQueue
            /\ appsrc' = Append(appsrc, [has_meta |-> TRUE, meta |-> downMsg_bytes,
                                         pts |-> GST_BUFFER_PTS(ts),
                                         duration |-> GST_BUFFER_DURATION(ts)])
            /\ xf_refs' = xf_refs + 1
            /\ UNCHANGED <<src_log, crashed>>
       ELSE /\ Len(src_log) < MaxErrors
            /\ src_log' = Append(src_log, [err |-> "flow", ts |-> ts])
            /\ xf_refs' = xf_refs
            /\ crashed' = TRUE
            /\ UNCHANGED appsrc
    /\ UNCHANGED <<bins, conn, joinsLeft, data_channel, timeout_src_id,
                   timers, nprobes, spc, pkt, cur, delivered, dropped, redundant>>
    /\ UNCHANGED <<lossVars, mainVars>>

\* One call of ems_gstreamer_src_push_frame on a frame whose capture
\* timestamp is ts, with the serialized DownMessage downMsg_bytes.  Both
\* early returns leave the wrapped buffer unpushed; a buffer the pipeline
\* rejects is logged.  (At most MaxErrors error lines are followed.)
\* xrt_frame_reference(&taken, xf) takes a reference that belongs to the
\* wrapping buffer and is given back by wrapped_buffer_destroy when that
\* buffer is freed: gst_app_src_push_buffer owns the buffer from the call on
\* and frees it itself when it rejects it; the early returns never unref it.
push_frame(ts, downMsg_bytes, env) ==
    /\ ~crashed
    /\ ts >= timestamp_ns
    /\ offset_ns' = IF offset_ns = 0 THEN ts ELSE offset_ns
    /\ timestamp_ns' = ts
    /\ IF ~env.struct_buf
       THEN /\ Len(src_log) < MaxErrors
            /\ src_log' = Append(src_log, [err |-> "struct_buf", ts |-> ts])
            /\ xf_refs' = xf_refs + 1
            /\ UNCHANGED appsrc
       ELSE IF ~env.custom_meta
       THEN /\ Len(src_log) < MaxErrors
            /\ src_log' = Append(src_log, [err |-> "custom_meta", ts |-> ts])
            /\ xf_refs' = xf_refs + 1
            /\ UNCHANGED appsrc
       ELSE IF env.ret = "GST_FLOW_OK"
       THEN /\ Len(appsrc) < MaxQueue
            /\ appsrc' = Append(appsrc, [has_meta |-> TRUE, meta |-> downMsg_bytes,
                                         pts |-> GST_BUFFER_PTS(ts),
                                         duration |-> GST_BUFFER_DURATION(ts)])
            /\ xf_refs' = xf_refs + 1
            /\ UNCHANGED src_log
       ELSE /\ Len(src_log) < MaxErrors
            /\ src_log' = Append(src_log, [err |-> "flow", ts |-> ts])
            /\ xf_refs' = xf_refs
            /\ UNCHANGED appsrc
    /\ UNCHANGED <<bins, conn, joinsLeft, data_channel, timeout_src_id,
                   timers, nprobes, crashed, spc, pkt, cur, delivered, dropped, redundant>>
    /\ UNCHANGED <<lossVars, mainVars>>

\* A push in which every library call succeeds, of a frame captured at the
\* instant of the frame before it, with a DownMessage of n bytes.
ems_gstreamer_src_push_frame(n) == push_frame(timestamp_ns, Bytes(n), PushOk)

\* ------------------------------------------------------------ multiplexer
\* gst_rtp_buffer_add_extension_twobytes_header(rtp, 0, id, data, size):
\* appends one element, an id byte, a length byte and the data.
add_extension_twobytes_header(ext, id, data, size) ==
    Append(ext, [id |-> id % 256, len |-> size % 256,
                 data |-> SubSeq(data, 1, size % 256)])

\* The probe with the size test off by one downwards.
rtppay_probe_ge(p) ==
    IF ~p.has_meta
    THEN [p EXCEPT !.runs = @ + 1]
    ELSE IF Len(p.meta) >= RTP_TWOBYTES_HDR_EXT_MAX_SIZE
         THEN [p EXCEPT !.runs = @ + 1]
         ELSE [p EXCEPT !.runs = @ + 1,
                        !.ext = add_extension_twobytes_header(
                                    @, RTP_TWOBYTES_HDR_EXT_ID, p.meta, Len(p.meta))]

\* The probe with the size test off by one upwards.
rtppay_probe_gt(p) ==
    IF ~p.has_meta
    THEN [p EXCEPT !.runs = @ + 1]
    ELSE IF Len(p.meta) > RTP_TWOBYTES_HDR_EXT_MAX_SIZE + 1
         THEN [p EXCEPT !.runs = @ + 1]
         ELSE [p EXCEPT !.runs = @ + 1,
                        !.ext = add_extension_twobytes_header(
                                    @, RTP_TWOBYTES_HDR_EXT_ID, p.meta, Len(p.meta))]

\* The probe as it would be if it wrote an element for a buffer without meta.
rtppay_probe_nometa(p) ==
    IF ~p.has_meta
    THEN [p EXCEPT !.runs = @ + 1,
                   !.ext = add_extension_twobytes_header(@, RTP_TWOBYTES_HDR_EXT_ID, <<>>, 0)]
    ELSE IF Len(p.meta) > RTP_TWOBYTES_HDR_EXT_MAX_SIZE
         THEN [p EXCEPT !.runs = @ + 1]
         ELSE [p EXCEPT !.runs = @ + 1,
                        !.ext = add_extension_twobytes_header(
                                    @, RTP_TWOBYTES_HDR_EXT_ID, p.meta, Len(p.meta))]

\* rtppay_probe on one buffer: no "down-message" meta, pass; payload larger
\* than RTP_TWOBYTES_HDR_EXT_MAX_SIZE, pass; otherwise add the element.
\* gst_rtp_buffer_map comes first and gst_buffer_map of the meta's buffer
\* before the size test; the return without a meta and the return at the end
\* undo what they mapped, the return for a payload that is too large calls
\* gst_rtp_buffer_unmap only.
rtppay_probe(p) ==
    IF ~p.has_meta
    THEN [p EXCEPT !.runs = @ + 1]
    ELSE IF Len(p.meta) > RTP_TWOBYTES_HDR_EXT_MAX_SIZE
         THEN [p EXCEPT !.runs = @ + 1, !.maps = @ \cup {"map_info"}]
         ELSE [p EXCEPT !.runs = @ + 1,
                        !.ext = add_extension_twobytes_header(
                                    @, RTP_TWOBYTES_HDR_EXT_ID, p.meta, Len(p.meta))]

\* Every probe installed on rtppay's src pad is called on the buffer.
RECURSIVE run_pad_probes(_, _)
run_pad_probes(k, p) == IF k = 0 THEN p ELSE run_pad_probes(k - 1, rtppay_probe(p))

\* ----------------------------------------------------------- protobuf
\* nanopb reads one varint of b from position i: the value and the position
\* after it, or a failure at the end of the stream.
RECURSIVE pb_decode_varint(_, _)
pb_decode_varint(b, i) ==
    IF i > Len(b) THEN [ok |-> FALSE, val |-> 0, next |-> i]
    ELSE IF b[i] < 128 THEN [ok |-> TRUE, val |-> b[i], next |-> i + 1]
    ELSE LET r == pb_decode_varint(b, i + 1)
         IN [ok |-> r.ok, val |-> (b[i] - 128) + 128 * r.val, next |-> r.next]

RECURSIVE pb_encode_varint(_)
pb_encode_varint(v) ==
    IF v < 128 THEN <<v>> ELSE <<128 + (v % 128)>> \o pb_encode_varint(v \div 128)

PbFail == [ok |-> FALSE, fields |-> <<>>]

\* The field walk of pb_decode_ex from position i: every field with its
\* number, wire type, varint value and bytes.  With PB_DECODE_NULLTERMINATED
\* a zero tag ends the message; without it a zero tag is an error.  Wire
\* types other than varint, 64-bit, length-delimited and 32-bit are errors,
\* and so is a field that runs past the end of the stream.
RECURSIVE pb_decode_fields(_, _, _)
pb_decode_fields(b, i, nullterminated) ==
    IF i > Len(b) THEN [ok |-> TRUE, fields |-> <<>>]
    ELSE
      LET t == pb_decode_varint(b, i) IN
      IF ~t.ok THEN PbFail
      ELSE IF t.val = 0
      THEN IF nullterminated THEN [ok |-> TRUE, fields |-> <<>>] ELSE PbFail
      ELSE
        LET wire == t.val % 8
            num == t.val \div 8
        IN
        IF wire = 0
        THEN LET v == pb_decode_varint(b, t.next) IN
             IF ~v.ok THEN PbFail
             ELSE LET rest == pb_decode_fields(b, v.next, nullterminated)
                  IN [ok |-> rest.ok,
                      fields |-> <<[num |-> num, wire |-> 0, val |-> v.val, data |-> <<>>]>>
                                 \o rest.fields]
        ELSE IF wire = 2
        THEN LET n == pb_decode_varint(b, t.next) IN
             IF ~n.ok \/ n.next + n.val - 1 > Len(b) THEN PbFail
             ELSE LET rest == pb_decode_fields(b, n.next + n.val, nullterminated)
                  IN [ok |-> rest.ok,
                      fields |-> <<[num |-> num, wire |-> 2, val |-> n.val,
                                    data |-> SubSeq(b, n.next, n.next + n.val - 1)]>>
                                 \o rest.fields]
        ELSE IF wire \in {1, 5}
        THEN LET w == IF wire = 1 THEN 8 ELSE 4 IN
             IF t.next + w - 1 > Len(b) THEN PbFail
             ELSE LET rest == pb_decode_fields(b, t.next + w, nullterminated)
                  IN [ok |-> rest.ok,
                      fields |-> <<[num |-> num, wire |-> wire, val |-> 0,
                                    data |-> SubSeq(b, t.next, t.next + w - 1)]>>
                                 \o rest.fields]
        ELSE PbFail

\* The value of the last field of that number and wire type, dflt if none.
RECURSIVE pb_field(_, _, _, _)
pb_field(fields, num, wire, dflt) ==
    IF fields = <<>> THEN dflt
    ELSE LET f == fields[Len(fields)] IN
         IF f.num = num /\ f.wire = wire THEN f
         ELSE pb_field(SubSeq(fields, 1, Len(fields) - 1), num, wire, dflt)

PbNone == [num |-> 0, wire |-> 0, val |-> 0, data |-> <<>>]

\* em_proto_DownMessage: frame_data is field 1 (a sub-message) and
\* frame_data.frame_sequence_id is its field 1 (a varint).
pb_encode_DownMessage(frame_sequence_id) ==
    LET frame_data == <<8>> \o pb_encode_varint(frame_sequence_id)
    IN <<10>> \o pb_encode_varint(Len(frame_data)) \o frame_data

\* pb_decode_ex(&stream, em_proto_DownMessage_fields, &msg, PB_DECODE_NULLTERMINATED)
pb_decode_DownMessage(b) ==
    LET top == pb_decode_fields(b, 1, TRUE)
        fd == pb_field(top.fields, 1, 2, PbNone)
        sub == pb_decode_fields(fd.data, 1, FALSE)
    IN [ok |-> top.ok /\ sub.ok,
        frame_sequence_id |-> pb_field(sub.fields, 1, 0, PbNone).val]

\* pb_decode_ex(&stream, &em_proto_UpMessage_msg, &message, PB_DECODE_NULLTERMINATED)
pb_decode_UpMessage(b) ==
    LET top == pb_decode_fields(b, 1, TRUE)
    IN [ok |-> top.ok, message |-> top.fields]

\* ---------------------------------------------------- data channel input
\* The peer sends bytes on the data channel of webrtcbin e: the channel emits
\* "on-message-data" with them.
on_message_data(e, data) ==
    /\ ~crashed
    /\ e \in Elems
    /\ bins[e].chan = "open"
    /\ rx = NoRx
    /\ rx' = [e |-> e, data |-> data]
    /\ UNCHANGED <<bins, conn, joinsLeft, data_channel, timeout_src_id,
                   timers, nprobes, crashed>>
    /\ UNCHANGED <<appsrc, spc, pkt, cur, delivered, dropped, redundant>>
    /\ UNCHANGED <<lossVars, srcVars>>
    /\ UNCHANGED <<benchmark_down_msg, now, mlpc, events, last_keepalive, up_log, promise, bus_log, xf_refs,
                   candidate_msg, ice, sdp_answer, stop_pc, extVars>>

\* The handler as it would be without the test of the decoder's result.
data_channel_message_data_cb_unchecked ==
    /\ ~crashed
    /\ rx # NoRx
    /\ Len(events) < MaxMsgs
    /\ events' = Append(events, pb_decode_UpMessage(rx.data).message)
    /\ rx' = NoRx
    /\ UNCHANGED up_log
    /\ UNCHANGED <<bins, conn, joinsLeft, data_channel, timeout_src_id,
                   timers, nprobes, crashed>>
    /\ UNCHANGED <<appsrc, spc, pkt, cur, delivered, dropped, redundant>>
    /\ UNCHANGED <<lossVars, srcVars>>
    /\ UNCHANGED <<benchmark_down_msg, now, mlpc, last_keepalive, promise, bus_log, xf_refs,
                   candidate_msg, ice, sdp_answer, stop_pc, extVars>>

\* data_channel_message_data_cb: decode the bytes as an UpMessage; on failure
\* log and return, otherwise
\* ems_callbacks_call(egp->callbacks, EMS_CALLBACKS_EVENT_TRACKING, &message).
data_channel_message_data_cb ==
    /\ ~crashed
    /\ rx # NoRx
    /\ LET result == pb_decode_UpMessage(rx.data) IN
         IF ~result.ok
         THEN /\ up_log < MaxErrors
              /\ up_log' = up_log + 1
              /\ UNCHANGED events
         ELSE /\ Len(events) < MaxMsgs
              /\ events' = Append(events, result.message)
              /\ UNCHANGED up_log
    /\ rx' = NoRx
    /\ UNCHANGED <<bins, conn, joinsLeft, data_channel, timeout_src_id,
                   timers, nprobes, crashed>>
    /\ UNCHANGED <<appsrc, spc, pkt, cur, delivered, dropped, redundant>>
    /\ UNCHANGED <<lossVars, srcVars>>
    /\ UNCHANGED <<benchmark_down_msg, now, mlpc, last_keepalive, promise, bus_log, xf_refs,
                   candidate_msg, ice, sdp_answer, stop_pc, extVars>>

\* ---------------------------------------------------------- loss monitor
\* The comparison as it would be for a descending sort.
compare_int_descending(a, b) == b - a

\* compare_int_ascending: GPOINTER_TO_INT(a) - GPOINTER_TO_INT(b)
compare_int_ascending(a, b) == a - b

RECURSIVE g_slist_insert_sorted(_, _)
g_slist_insert_sorted(l, x) ==
    IF l = <<>> THEN <<x>>
    ELSE IF compare_int_ascending(x, Head(l)) <= 0 THEN <<x>> \o l
    ELSE <<Head(l)>> \o g_slist_insert_sorted(Tail(l), x)

\* The list as it would be walked if it were not sorted.
g_slist_unsorted(l) == l

\* g_slist_sort(list, compare_int_ascending)
RECURSIVE g_slist_sort(_)
g_slist_sort(l) ==
    IF l = <<>> THEN <<>> ELSE g_slist_insert_sorted(g_slist_sort(Tail(l)), Head(l))

\* The loop of lines 364-379 from list node l on, with the id seen last
\* (-1 before the first) and the accumulator.
RECURSIVE down_msg_loss_accumulator(_, _, _)
down_msg_loss_accumulator(l, last, acc) ==
    IF l = <<>> THEN acc
    ELSE LET current == Head(l)
             num_skipped == (current - last) - 1
         IN down_msg_loss_accumulator(Tail(l), current,
                IF last # -1 /\ num_skipped > 0 THEN acc + num_skipped ELSE acc)

\* benchmark_down_msg_loss(self, map_info) with the clock at t, on the loss
\* window L: a payload that does not decode changes nothing; otherwise the
\* id is prepended and, once REPORT_INTERVAL_SECS seconds have passed since
\* last_print_time, the rate line is printed and the window restarted.
benchmark_down_msg_loss(L, data, t) ==
    LET msg == pb_decode_DownMessage(data) IN
    IF ~msg.ok THEN L
    ELSE
      LET L1 == IF ~L.have THEN [L EXCEPT !.have = TRUE, !.list = <<>>, !.last = t] ELSE L
          list == <<msg.frame_sequence_id>> \o L1.list
          duration_since_last_print_secs == t - L1.last
      IN IF duration_since_last_print_secs >= REPORT_INTERVAL_SECS
         THEN [have |-> TRUE, last |-> t, list |-> <<>>,
               log |-> [count |-> down_msg_loss_accumulator(g_slist_sort(list), -1, 0),
                        secs |-> duration_since_last_print_secs, printed |-> TRUE]]
         ELSE [L1 EXCEPT !.list = list]

\* What one call of rtppay_probe on buffer p does to the loss window: with
\* --benchmark-down-msg, a buffer that got its extension element is sampled.
rtppay_probe_self(p, L, t) ==
    IF benchmark_down_msg /\ rtppay_probe(p).ext # p.ext
    THEN benchmark_down_msg_loss(L, p.meta, t)
    ELSE L

RECURSIVE run_pad_probes_self(_, _, _, _)
run_pad_probes_self(k, p, L, t) ==
    IF k = 0 THEN L
    ELSE run_pad_probes_self(k - 1, rtppay_probe(p), rtppay_probe_self(p, L, t), t)

\* The loss window as a record.
LossWindow ==
    [have |-> have_ever_sent_a_down_msg, last |-> last_print_time,
     list |-> sent_down_msg_list, log |-> skip_log]

\* The streaming thread takes the next buffer through the encoder and
\* rtph264pay (which keeps the buffer's metas) and past rtppay's src pad.
\* The encoder is done with the wrapping buffer: it is freed and
\* wrapped_buffer_destroy gives the frame's reference back.
rtph264pay ==
    /\ ~crashed
    /\ spc = "idle"
    /\ appsrc # <<>>
    /\ pkt' = run_pad_probes(nprobes, [has_meta |-> Head(appsrc).has_meta, meta |-> Head(appsrc).meta,
                                         ext |-> <<>>, runs |-> 0, maps |-> {}])
    /\ appsrc' = Tail(appsrc)
    /\ spc' = "tee"
    /\ delivered' = {}
    /\ dropped' = (dropped \/ (nprobes > 0 /\ Head(appsrc).has_meta
                               /\ pkt'.ext = <<>>))
    /\ LET L == run_pad_probes_self(nprobes, [has_meta |-> Head(appsrc).has_meta,
                                               meta |-> Head(appsrc).meta,
                                               ext |-> <<>>, runs |-> 0, maps |-> {}],
                                    LossWindow, now)
       IN /\ have_ever_sent_a_down_msg' = L.have
          /\ last_print_time' = L.last
          /\ sent_down_msg_list' = L.list
          /\ skip_log' = L.log
    /\ UNCHANGED <<bins, conn, joinsLeft, data_channel, timeout_src_id,
                   timers, nprobes, crashed, cur, redundant>>
    /\ xf_refs' = xf_refs - 1
    /\ UNCHANGED <<srcVars, mainVars>>

\* The same step of the streaming thread, seen in two halves when the buffer
\* is sampled by the loss monitor: up to the entry of benchmark_down_msg_loss
\* in the first probe (the buffer is in hand, nothing is written yet) ...
benchmark_down_msg_loss_enter ==
    /\ ~crashed
    /\ spc = "idle"
    /\ appsrc # <<>>
    /\ benchmark_down_msg
    /\ nprobes > 0
    /\ Len(sent_down_msg_list) < MaxWindow
    /\ LET p == [has_meta |-> Head(appsrc).has_meta, meta |-> Head(appsrc).meta,
                 ext |-> <<>>, runs |-> 0, maps |-> {}]
       IN /\ rtppay_probe(p).ext # p.ext
          /\ pkt' = p
    /\ appsrc' = Tail(appsrc)
    /\ spc' = "loss"
    /\ delivered' = {}
    /\ UNCHANGED <<bins, conn, joinsLeft, data_channel, timeout_src_id,
                   timers, nprobes, crashed, cur, redundant, dropped>>
    /\ xf_refs' = xf_refs - 1
    /\ UNCHANGED <<lossVars, srcVars, mainVars>>

\* ... and from there to the tee: the probes run on the loss window as it is
\* by then.
benchmark_down_msg_loss_return ==
    /\ ~crashed
    /\ spc = "loss"
    /\ pkt' = run_pad_probes(nprobes, pkt)
    /\ spc' = "tee"
    /\ dropped' = (dropped \/ (pkt.has_meta /\ pkt'.ext = <<>>))
    /\ LET L == run_pad_probes_self(nprobes, pkt, LossWindow, now)
       IN /\ have_ever_sent_a_down_msg' = L.have
          /\ last_print_time' = L.last
          /\ sent_down_msg_list' = L.list
          /\ skip_log' = L.log
    /\ UNCHANGED <<bins, conn, joinsLeft, data_channel, timeout_src_id,
                   timers, nprobes, crashed, cur, redundant, appsrc, delivered>>
    /\ UNCHANGED <<srcVars, auxVars>>

\* rtph264pay config-interval=1: the payloader sends the parameter sets in
\* packets of their own, made from its stored SPS and PPS, which carry no
\* meta of any pushed buffer.
rtph264pay_config ==
    /\ ~crashed
    /\ spc = "idle"
    /\ pkt' = run_pad_probes(nprobes, [has_meta |-> FALSE, meta |-> <<>>,
                                       ext |-> <<>>, runs |-> 0, maps |-> {}])
    /\ spc' = "tee"
    /\ delivered' = {}
    /\ LET L == run_pad_probes_self(nprobes, [has_meta |-> FALSE, meta |-> <<>>,
                                               ext |-> <<>>, runs |-> 0, maps |-> {}],
                                    LossWindow, now)
       IN /\ have_ever_sent_a_down_msg' = L.have
          /\ last_print_time' = L.last
          /\ sent_down_msg_list' = L.list
          /\ skip_log' = L.log
    /\ UNCHANGED <<bins, conn, joinsLeft, data_channel, timeout_src_id,
                   timers, nprobes, crashed, cur, redundant, appsrc, dropped>>
    /\ UNCHANGED <<srcVars, auxVars>>

\* ------------------------------------------------------------------- tee
\* The tee pushes the packet on each of its src pads in turn.  A pad on which
\* a blocking probe is installed runs the probe callbacks before the push.

\* remove_webrtcbin_probe_cb(pad, info, webrtcbin):
\* gst_bin_remove(parent, webrtcbin) unlinks the pads of the child it removes
\* and fails on a webrtcbin that has no parent; then
\* gst_element_set_state(webrtcbin, GST_STATE_NULL); GST_PAD_PROBE_REMOVE
\* takes this probe off the pad.
remove_webrtcbin_probe_cb(w) ==
    [w EXCEPT !.inBin = FALSE, !.linked = FALSE, !.state = "NULL", !.probes = @ - 1]

\* The probes of a pad as they would fire if only the first one ran.
run_block_probes_first(w) == remove_webrtcbin_probe_cb(w)

RECURSIVE run_block_probes(_)
run_block_probes(w) ==
    IF w.probes = 0 THEN w ELSE run_block_probes(remove_webrtcbin_probe_cb(w))

\* The streaming thread reaches a blocked tee src pad: the probes fire, then
\* the push finds the pad unlinked (the tee has allow-not-linked=true).
pad_block_probe(e) ==
    /\ ~crashed
    /\ spc = "tee"
    /\ e \in Elems
    /\ bins[e].linked
    /\ bins[e].probes > 0
    /\ e \notin delivered
    /\ bins' = [bins EXCEPT ![e] = run_block_probes(@)]
    /\ UNCHANGED <<conn, joinsLeft, data_channel, timeout_src_id,
                   timers, nprobes, crashed, appsrc, spc, pkt, cur, delivered, dropped, redundant>>
    /\ UNCHANGED <<lossVars, srcVars, auxVars>>

\* The streaming thread enters the chain function of webrtcbin e.
tee_push(e) ==
    /\ ~crashed
    /\ spc = "tee"
    /\ e \in Elems
    /\ bins[e].linked
    /\ bins[e].probes = 0
    /\ e \notin delivered
    /\ cur' = e
    /\ spc' = "chain"
    /\ UNCHANGED <<bins, conn, joinsLeft, data_channel, timeout_src_id,
                   timers, nprobes, crashed, appsrc, pkt, delivered, dropped, redundant>>
    /\ UNCHANGED <<lossVars, srcVars, auxVars>>

\* The chain function returns.
chain_return ==
    /\ ~crashed
    /\ spc = "chain"
    /\ delivered' = delivered \cup {cur}
    /\ cur' = 0
    /\ spc' = "tee"
    /\ UNCHANGED <<bins, conn, joinsLeft, data_channel, timeout_src_id,
                   timers, nprobes, crashed, appsrc, pkt, dropped, redundant>>
    /\ UNCHANGED <<lossVars, srcVars, auxVars>>

\* The tee as it would be without allow-not-linked=true: with no src pad
\* linked the push returns GST_FLOW_NOT_LINKED and the streaming thread stops.
tee_return_not_linked ==
    /\ ~crashed
    /\ spc = "tee"
    /\ \E e \in Elems : bins[e].linked
    /\ \A e \in Elems : bins[e].linked => e \in delivered
    /\ spc' = "idle"
    /\ pkt' = NoPkt
    /\ delivered' = {}
    /\ UNCHANGED <<bins, conn, joinsLeft, data_channel, timeout_src_id,
                   timers, nprobes, crashed, appsrc, cur, dropped, redundant>>
    /\ UNCHANGED <<lossVars, srcVars, auxVars>>

\* Every linked src pad has been served: the tee returns (the pipeline is
\* built with "tee allow-not-linked=true", so also when none is linked).
tee_return ==
    /\ ~crashed
    /\ spc = "tee"
    /\ \A e \in Elems : bins[e].linked => e \in delivered
    /\ spc' = "idle"
    /\ pkt' = NoPkt
    /\ delivered' = {}
    /\ UNCHANGED <<bins, conn, joinsLeft, data_channel, timeout_src_id,
                   timers, nprobes, crashed, appsrc, cur, dropped, redundant>>
    /\ UNCHANGED <<lossVars, srcVars, auxVars>>

\* Sizes of the DownMessages the application pushes in the lifecycle runs.
LifecycleSizes == {1}

\* The streaming thread where no pad is blocked.
Delivery ==
    \/ rtph264pay
    \/ \E e \in Elems : tee_push(e)
    \/ chain_return
    \/ tee_return

Streaming ==
    \/ Delivery
    \/ \E e \in Elems : pad_block_probe(e)

Next ==
    \/ \E c \in Clients : webrtc_client_connected_cb(c)
    \/ \E e \in Elems : on_offer_created(e)
    \/ \E e \in Elems : set_local_description(e)
    \/ \E c \in Clients : webrtc_sdp_answer_cb(c)
    \/ \E c \in Clients : webrtc_client_disconnected_cb(c)
    \/ \E n \in LifecycleSizes : ems_gstreamer_src_push_frame(n)
    \/ Streaming

Spec == Init /\ [][Next]_vars

\* ------------------------------------------------------- frame source runs
\* Sizes of the DownMessages of the frame source runs.
SrcSizes == {1}

\* The frame source alone: frames with non-decreasing capture timestamps,
\* every outcome of the library calls, and the streaming thread draining
\* appsrc while no peer has joined.
NextSrc ==
    \/ \E ts \in 0..MaxTs, n \in SrcSizes, env \in PushEnvs : push_frame(ts, Bytes(n), env)
    \/ rtph264pay
    \/ tee_return

SpecSrc == Init /\ [][NextSrc]_vars

\* ------------------------------------------------------------ loss runs
\* Sequence ids of the DownMessages of the loss runs.
FrameIds == {0, 1, 2, 4, 7}

\* A payload that is no DownMessage: its sub-message runs past the end.
Malformed == <<10, 5, 8>>

TickPayloads == {pb_encode_DownMessage(id) : id \in FrameIds} \cup {Malformed}

\* The loss windows of 1..n ids, in every order, duplicates included.
Windows(n) == UNION {[1..k -> FrameIds] : k \in 1..n}

\* The server run with --benchmark-down-msg, at a moment when one peer has
\* joined, the window opened at second 0 holds some ids, the clock has
\* reached some second and one more frame waits in appsrc.
InitTick ==
    /\ bins = <<new_webrtcbin(1, TRUE)>>
    /\ conn = {1}
    /\ joinsLeft = MaxJoins - 1
    /\ data_channel = 1
    /\ timeout_src_id = 0
    /\ timers = {}
    /\ nprobes = 1
    /\ appsrc \in {<<[has_meta |-> TRUE, meta |-> m, pts |-> 0, duration |-> 0]>> :
                      m \in TickPayloads}
    /\ spc = "idle"
    /\ pkt = NoPkt
    /\ cur = 0
    /\ delivered = {}
    /\ dropped = FALSE
    /\ redundant = {}
    /\ crashed = FALSE
    /\ benchmark_down_msg = TRUE
    /\ have_ever_sent_a_down_msg = TRUE
    /\ last_print_time = 0
    /\ sent_down_msg_list \in Windows(MaxWindow - 1)
    /\ skip_log = NoLog
    /\ now \in 0..MaxTime
    /\ offset_ns = 0
    /\ timestamp_ns = 0
    /\ src_log = <<>>
    /\ mlpc = "idle"
    /\ events = <<>>
    /\ last_keepalive = 0
    /\ rx = NoRx
    /\ up_log = 0
    /\ promise = 0
    /\ bus_log = <<>>
    /\ xf_refs = 1
    /\ candidate_msg = NoCandidate
    /\ ice = {}
    /\ sdp_answer = NoAnswer
    /\ stop_pc = "playing"
    /\ InitExt

NextTick ==
    \/ \E e \in Elems : on_offer_created(e)
    \/ rtph264pay_config
    \/ Delivery

SpecTick == InitTick /\ [][NextTick]_vars

\* The lifecycle together with the data-channel callbacks.
NextChan ==
    \/ Next
    \/ \E e \in Elems : data_channel_open_cb(e)
    \/ \E e \in Elems : data_channel_close_cb(e)
    \/ \E e \in Elems : datachannel_send_message(e)

SpecChan == Init /\ [][NextChan]_vars

\* Bytes a peer may send: two that decode as an UpMessage (the second ends
\* at a zero tag), one whose length-delimited field runs past the end, and
\* one with a wire type the decoder does not know.
UpPayloads == {<<8, 3>>, <<16, 1, 0, 9>>, Malformed, <<11, 1>>}

\* The data channels: joins, offers, answers, the channels' open and close,
\* and bytes arriving from the peers.
NextUp ==
    \/ \E c \in Clients : webrtc_client_connected_cb(c)
    \/ \E e \in Elems : on_offer_created(e)
    \/ \E c \in Clients : webrtc_sdp_answer_cb(c)
    \/ \E e \in Elems : data_channel_open_cb(e)
    \/ \E e \in Elems : data_channel_close_cb(e)
    \/ \E e \in Elems, data \in UpPayloads : on_message_data(e, data)
    \/ data_channel_message_data_cb

SpecUp == Init /\ [][NextUp]_vars

\* Detaching: joins, offers, answers and leaves against the streaming
\* thread; every set-local-description request stays queued until the answer.
NextDetach ==
    \/ \E c \in Clients : webrtc_client_connected_cb(c)
    \/ \E e \in Elems : on_offer_created(e)
    \/ \E c \in Clients : webrtc_sdp_answer_cb(c)
    \/ \E c \in Clients : webrtc_client_disconnected_cb(c)
    \/ \E n \in LifecycleSizes : ems_gstreamer_src_push_frame(n)
    \/ Streaming

SpecDetach == Init /\ [][NextDetach]_vars

\* Negotiation: joins, offers, local descriptions and answers against the
\* streaming thread, with no leave.
NextNeg ==
    \/ \E c \in Clients : webrtc_client_connected_cb(c)
    \/ \E e \in Elems : on_offer_created(e)
    \/ \E e \in Elems : set_local_description(e)
    \/ \E c \in Clients : webrtc_sdp_answer_cb(c)
    \/ \E n \in LifecycleSizes : ems_gstreamer_src_push_frame(n)
    \/ Delivery

SpecNeg == Init /\ [][NextNeg]_vars

\* The multiplexer under every payload size, with joins and offers but no
\* answers, no leaves and no data-channel events.
NextMux ==
    \/ \E c \in Clients : webrtc_client_connected_cb(c)
    \/ \E e \in Elems : on_offer_created(e)
    \/ \E n \in PayloadSizes : ems_gstreamer_src_push_frame(n)
    \/ Delivery

SpecMux == Init /\ [][NextMux]_vars

\* Joining when the data channel may not be created: joins, offers and the
\* streaming thread.  No identity joins twice, so no name is ever taken.
NextJoin ==
    \/ \E c \in Clients, env \in JoinEnvs : client_connected(c, env)
    \/ \E e \in Elems : on_offer_created(e)
    \/ \E n \in LifecycleSizes : ems_gstreamer_src_push_frame(n)
    \/ Delivery

SpecJoin == Init /\ [][NextJoin]_vars

\* Frame ids of the DownMessages pushed in the runs of the two threads.
RaceIds == {0, 1}

\* The loss monitor between its two threads: the main loop handles joins
\* while the streaming thread samples DownMessages that decode.  (Frames are
\* pushed while the window holds fewer than MaxWindow ids.)
NextRace ==
    \/ \E c \in Clients : webrtc_client_connected_cb(c)
    \/ \E e \in Elems : on_offer_created(e)
    \/ /\ Len(sent_down_msg_list) < MaxWindow
       /\ \E id \in RaceIds : push_frame(timestamp_ns, pb_encode_DownMessage(id), PushOk)
    \/ benchmark_down_msg_loss_enter
    \/ benchmark_down_msg_loss_return
    \/ Delivery

SpecRace == InitBenchmark /\ [][NextRace]_vars

\* Candidates during negotiation: joins, offers, local descriptions and
\* answers, with candidate messages for every identity, joined or not.
NextIce ==
    \/ \E c \in Clients : webrtc_client_connected_cb(c)
    \/ \E e \in Elems : on_offer_created(e)
    \/ \E e \in Elems : set_local_description(e)
    \/ \E c \in Clients : webrtc_sdp_answer_cb(c)
    \/ \E c \in Clients, cand \in Candidates : candidate(c, cand)
    \/ webrtc_candidate_cb

SpecIce == Init /\ [][NextIce]_vars

\* Answers as messages: joins, offers, local descriptions, answer messages
\* for every identity, the handler and the webrtcbin's reply.
NextSdp ==
    \/ \E c \in Clients : webrtc_client_connected_cb(c)
    \/ \E e \in Elems : on_offer_created(e)
    \/ \E e \in Elems : set_local_description(e)
    \/ \E c \in Clients, sdp \in Sdps : sdp_answer_msg(c, sdp)
    \/ webrtc_sdp_answer_cb_sdp
    \/ gst_promise_reply

SpecSdp == Init /\ [][NextSdp]_vars

\* ---------------------------------------------------------------------
\* The image pool (ems_vk_cuda_image_pool.cpp)

\* A lock without mutual exclusion.
scoped_lock_unguarded == TRUE

\* std::scoped_lock<std::mutex> lock{pool_mutex} can be taken.
scoped_lock == pool_mutex = 0

\* The scan of new_image that leaves out the last image of the pool.
first_unused_short ==
    IF \E i \in 1..(PoolSize - 1) : ~images[i]
    THEN CHOOSE i \in 1..(PoolSize - 1) :
             ~images[i] /\ \A j \in 1..(i - 1) : images[j]
    ELSE 0

\* for (auto& pooled_image : pool->images) if (!pooled_image.used): the
\* first image that is not used, 0 when there is none.
first_unused ==
    IF \E i \in PoolImages : ~images[i]
    THEN CHOOSE i \in PoolImages : ~images[i] /\ \A j \in 1..(i - 1) : images[j]
    ELSE 0

\* ems_vk_cuda_image_pool_new_image(nullptr): returns nullptr.
new_image_no_pool(t) ==
    /\ callers[t].pc = "idle"
    /\ callers[t].ret # 0
    /\ callers' = [callers EXCEPT ![t].ret = 0]
    /\ UNCHANGED <<images, pool_mutex, held>>
    /\ UNCHANGED <<coreVars, propVars, ptVars>>

\* ems_vk_cuda_image_pool_new_image, entry: takes pool_mutex.
new_image_lock(t) ==
    /\ callers[t].pc = "idle"
    /\ scoped_lock
    /\ pool_mutex' = t
    /\ callers' = [callers EXCEPT ![t] = [pc |-> "new_scan", image |-> 0, ret |-> 0]]
    /\ UNCHANGED <<images, held>>
    /\ UNCHANGED <<coreVars, propVars, ptVars>>

\* ... the loop reads the used flags up to the first image that is not used.
new_image_scan(t) ==
    /\ callers[t].pc = "new_scan"
    /\ callers' = [callers EXCEPT ![t].pc = IF first_unused = 0 THEN "new_ret" ELSE "new_mark",
                                  ![t].image = first_unused]
    /\ UNCHANGED <<images, pool_mutex, held>>
    /\ UNCHANGED <<coreVars, propVars, ptVars>>

\* ... pooled_image.used = true.
new_image_mark(t) ==
    /\ callers[t].pc = "new_mark"
    /\ images' = [images EXCEPT ![callers[t].image] = TRUE]
    /\ callers' = [callers EXCEPT ![t].pc = "new_ret"]
    /\ UNCHANGED <<pool_mutex, held>>
    /\ UNCHANGED <<coreVars, propVars, ptVars>>

\* ... return &pooled_image.base, or nullptr after the loop; the lock is
\* released and the caller holds the image.
new_image_return(t) ==
    /\ callers[t].pc = "new_ret"
    /\ pool_mutex' = IF pool_mutex = t THEN 0 ELSE pool_mutex
    /\ callers' = [callers EXCEPT ![t] = [pc |-> "idle", image |-> 0,
                                          ret |-> callers[t].image]]
    /\ held' = [held EXCEPT ![t] = held[t] \cup (PoolImages \cap {callers[t].image})]
    /\ UNCHANGED images
    /\ UNCHANGED <<coreVars, propVars, ptVars>>

\* The pointers a thread passes to release_image: an image it holds, nullptr,
\* an image that is not in the pool, or an image that is already released.
Releasable(t) ==
    held[t] \cup {0, PoolSize + 1} \cup {i \in PoolImages : ~images[i]}

\* ems_vk_cuda_image_pool_release_image, entry: takes pool_mutex.  The
\* caller gives the image up with the call.
release_image_lock(t, image) ==
    /\ callers[t].pc = "idle"
    /\ image \in Releasable(t)
    /\ scoped_lock
    /\ pool_mutex' = t
    /\ callers' = [callers EXCEPT ![t] = [pc |-> "release", image |-> image, ret |-> 0]]
    /\ held' = [held EXCEPT ![t] = held[t] \ {image}]
    /\ UNCHANGED images
    /\ UNCHANGED <<coreVars, propVars, ptVars>>

\* ... the loop: the image whose address is the pointer gets used = false;
\* no image is touched when none has that address.  The lock is released.
release_image_return(t) ==
    /\ callers[t].pc = "release"
    /\ images' = [i \in PoolImages |->
                    IF i = callers[t].image THEN FALSE ELSE images[i]]
    /\ pool_mutex' = IF pool_mutex = t THEN 0 ELSE pool_mutex
    /\ callers' = [callers EXCEPT ![t] = Idle]
    /\ UNCHANGED held
    /\ UNCHANGED <<coreVars, propVars, ptVars>>

\* Threads taking images from the pool and giving them back.
NextPool ==
    \/ \E t \in Threads : new_image_no_pool(t)
    \/ \E t \in Threads : new_image_lock(t)
    \/ \E t \in Threads : new_image_scan(t)
    \/ \E t \in Threads : new_image_mark(t)
    \/ \E t \in Threads : new_image_return(t)
    \/ \E t \in Threads : \E image \in ImagePointers : release_image_lock(t, image)
    \/ \E t \in Threads : release_image_return(t)

SpecPool == Init /\ [][NextPool]_vars

\* ---------------------------------------------------------------------
\* The system property reader (em_system_properties)

\* property_read_cb, run by the property system for a requested read:
\* under property_read_mutex, property_result = value and
\* property_received = true.
property_read_cb(cookie) ==
    /\ cookie \in read_callbacks
    /\ read_callbacks' = read_callbacks \ {cookie}
    /\ property_result' = system_property(cookie)
    /\ property_received' = TRUE
    /\ UNCHANGED reader
    /\ UNCHANGED <<coreVars, poolVars, ptVars>>

\* read_system_property up to its loop: a null name and a property that is
\* not set return the empty string; otherwise the read callback is requested
\* with the name as its cookie.
read_system_property(property_name, timeout_ms) ==
    /\ reader.pc \in {"idle", "returned"}
    /\ IF property_name = nullptr \/ ~system_property_find(property_name)
       THEN /\ reader' = [pc |-> "returned", property_name |-> property_name,
                          timeout_ms |-> timeout_ms, wait_duration_ms |-> 0, ret |-> ""]
            /\ UNCHANGED read_callbacks
       ELSE /\ reader' = [pc |-> "poll", property_name |-> property_name,
                          timeout_ms |-> timeout_ms, wait_duration_ms |-> 0, ret |-> ""]
            /\ read_callbacks' = read_callbacks \cup {property_name}
    /\ UNCHANGED <<property_result, property_received>>
    /\ UNCHANGED <<coreVars, poolVars, ptVars>>

\* One test of while (wait_duration_ms < timeout_ms) and, under
\* property_read_mutex, one pass of its body: return property_result when
\* property_received, else the time waited grows.  After the loop the empty
\* string is returned.
read_system_property_poll ==
    /\ reader.pc = "poll"
    /\ reader' =
         IF reader.wait_duration_ms < reader.timeout_ms
         THEN IF property_received
              THEN [reader EXCEPT !.pc = "returned", !.ret = property_result]
              ELSE [reader EXCEPT !.wait_duration_ms = @ + 1]
         ELSE [reader EXCEPT !.pc = "returned", !.ret = ""]
    /\ UNCHANGED <<property_result, property_received, read_callbacks>>
    /\ UNCHANGED <<coreVars, poolVars, ptVars>>

\* Calls of read_system_property one after the other, and the callbacks of
\* the property system.
NextProp ==
    \/ \E name \in PropertyNames \cup {nullptr} : \E t \in 0..MaxTimeoutMs :
          read_system_property(name, t)
    \/ read_system_property_poll
    \/ \E cookie \in PropertyNames : property_read_cb(cookie)

SpecProp == Init /\ [][NextProp]_vars

\* ---------------------------------------------------------------------
\* The client's passthrough (em_passthrough.cpp, em_passthrough.hpp)

\* FBPassthrough::FBPassthrough: the base class starts with m_eb_mode
\* OPAQUE; the passthrough and its reconstruction layer are created when the
\* context is valid, the extension is supported and the XR calls succeed.
FBPassthrough(xr_valid, created) ==
    /\ ~passthrough.constructed
    /\ passthrough' = [constructed |-> TRUE, xr_valid |-> xr_valid, m_eb_mode |-> "OPAQUE",
                       m_recon_pt_layer |-> (xr_valid /\ created),
                       started |-> FALSE, resumed |-> FALSE]
    /\ UNCHANGED blend_call
    /\ UNCHANGED <<coreVars, poolVars, propVars>>

\* The results of the XR calls of one handler call: whether
\* xrPassthroughStartFB, xrPassthroughLayerResumeFB and
\* xrPassthroughLayerSetStyleFB succeed.
XrResults == [start : BOOLEAN, resume : BOOLEAN, style : BOOLEAN]

\* FBPassthrough::resume_passthrough_layer: its result and the XR objects
\* after it.
resume_passthrough_layer(xr) ==
    IF ~passthrough.m_recon_pt_layer
    THEN [ok |-> FALSE, started |-> passthrough.started, resumed |-> passthrough.resumed]
    ELSE IF ~xr.start
    THEN [ok |-> FALSE, started |-> passthrough.started, resumed |-> passthrough.resumed]
    ELSE IF ~xr.resume
    THEN [ok |-> FALSE, started |-> TRUE, resumed |-> passthrough.resumed]
    ELSE [ok |-> xr.style, started |-> TRUE, resumed |-> TRUE]

\* FBPassthrough::pasue_passthrough_layer: fails without a layer; the
\* results of the two pause calls are logged only.
pasue_passthrough_layer ==
    IF ~passthrough.m_recon_pt_layer
    THEN [ok |-> FALSE, started |-> passthrough.started, resumed |-> passthrough.resumed]
    ELSE [ok |-> TRUE, started |-> FALSE, resumed |-> FALSE]

\* FBPassthrough::set_blend_mode_handler
set_blend_mode_handler(mode, xr) ==
    IF ~passthrough.xr_valid
    THEN [ok |-> FALSE, started |-> passthrough.started, resumed |-> passthrough.resumed]
    ELSE IF mode \in {"ADDITIVE", "ALPHA_BLEND"}
    THEN resume_passthrough_layer(xr)
    ELSE pasue_passthrough_layer

\* The mode stored whatever the handler said.
m_eb_mode_unchecked(new_mode, handled) == new_mode

\* m_eb_mode after the handler was called: new_mode when it succeeded.
m_eb_mode_after(new_mode, handled) ==
    IF handled THEN new_mode ELSE passthrough.m_eb_mode

\* Passthrough::set_blend_mode
set_blend_mode(new_mode, xr) ==
    /\ passthrough.constructed
    /\ blend_call.n < MaxBlendCalls
    /\ IF ~passthrough.xr_valid \/ new_mode = passthrough.m_eb_mode
       THEN /\ blend_call' = [n |-> blend_call.n + 1, new_mode |-> new_mode,
                              handler |-> "not called", ret |-> FALSE]
            /\ UNCHANGED passthrough
       ELSE LET h == set_blend_mode_handler(new_mode, xr) IN
            /\ blend_call' = [n |-> blend_call.n + 1, new_mode |-> new_mode,
                              handler |-> IF h.ok THEN "ok" ELSE "failed",
                              ret |-> h.ok]
            /\ passthrough' = [passthrough EXCEPT
                                 !.m_eb_mode = m_eb_mode_after(new_mode, h.ok),
                                 !.started = h.started,
                                 !.resumed = h.resumed]
    /\ UNCHANGED <<coreVars, poolVars, propVars>>

\* The client makes its passthrough object and switches blend modes.
NextPassthrough ==
    \/ \E xr_valid, created \in BOOLEAN : FBPassthrough(xr_valid, created)
    \/ \E new_mode \in BlendModes : \E xr \in XrResults : set_blend_mode(new_mode, xr)

SpecPassthrough == Init /\ [][NextPassthrough]_vars

\* Stopping: the application stops a pipeline that is playing, with peers
\* joining and frames flowing until the pipeline is set to NULL.
NextStop ==
    \/ /\ stop_pc # "stopped"
       /\ \/ \E c \in Clients : webrtc_client_connected_cb(c)
          \/ \E e \in Elems : on_offer_created(e)
          \/ \E n \in LifecycleSizes : ems_gstreamer_src_push_frame(n)
          \/ Delivery
    \/ ems_gstreamer_pipeline_stop
    \/ gst_bus_post_eos
    \/ gst_bus_timed_pop_filtered
    \/ gst_bus_watch_eos

SpecStop == Init /\ [][NextStop]_vars

\* The bus watch beside joins, offers and the streaming thread.
NextBus ==
    \/ \E c \in Clients : webrtc_client_connected_cb(c)
    \/ \E e \in Elems : on_offer_created(e)
    \/ \E n \in LifecycleSizes : ems_gstreamer_src_push_frame(n)
    \/ Delivery
    \/ \E message \in BusMessages : gst_bus_cb(message)

SpecBus == Init /\ [][NextBus]_vars

\* Answering: the answer handler in its two halves, with joins, offers,
\* local descriptions and the streaming thread, and no leave.
NextAnswer ==
    \/ \E c \in Clients : webrtc_client_connected_cb(c)
    \/ \E e \in Elems : on_offer_created(e)
    \/ \E e \in Elems : set_local_description(e)
    \/ \E c \in Clients : webrtc_sdp_answer_cb_wait(c)
    \/ gst_promise_reply
    \/ \E n \in LifecycleSizes : ems_gstreamer_src_push_frame(n)
    \/ Delivery

SpecAnswer == Init /\ [][NextAnswer]_vars

\* The program's own steps are taken when they stay enabled: the streaming
\* thread runs, the application keeps pushing frames, and each webrtcbin
\* serves its queued requests.  Signalling and peer events are not forced.
Fairness ==
    /\ WF_vars(Streaming)
    /\ WF_vars(\E n \in LifecycleSizes : ems_gstreamer_src_push_frame(n))
    /\ \A e \in 1..MaxJoins : WF_vars(on_offer_created(e))
    /\ \A e \in 1..MaxJoins : WF_vars(set_local_description(e))

FairSpec == Spec /\ Fairness

\* The same for answering.  Nothing makes a webrtcbin reply to a
\* promise: whether it does is the peer's and the transport's affair.
FairSpecAnswer == SpecAnswer /\ Fairness

\* ------------------------------------------------------------- properties

Attached(e) == bins[e].inBin /\ bins[e].linked /\ bins[e].state = "PLAYING"

\* A step removes webrtcbin e from the pipeline or stops it.
TornDown(e) ==
    \/ bins[e].inBin /\ ~bins'[e].inBin
    \/ bins[e].state # "NULL" /\ bins'[e].state = "NULL"

\* C1: a webrtcbin is removed from the pipeline or set to NULL only by a step
\* taken while a blocking probe sits on the tee src pad feeding it, and never
\* while the streaming thread is inside its chain function.
C1_BlockBeforeRemove ==
    [][\A e \in Elems : TornDown(e) => (bins[e].probes > 0 /\ cur # e)]_vars

\* C1 witness: the leave arrived while a packet was being delivered into the
\* webrtcbin; the probe is installed and the webrtcbin is still running.
C1_Witness ==
    \E e \in Elems : cur = e /\ bins[e].probes > 0 /\ Attached(e)

\* C2 (as claimed): every webrtcbin whose identity left (a leave came after its
\* last join) is
\* eventually removed from the pipeline and stopped.
C2_LeaveLeadsToRemoved ==
    \A e \in 1..MaxJoins :
        (e \in Elems /\ bins[e].client \notin conn /\ ~crashed) ~> (crashed \/ (e \in Elems /\ REMOVED(e)))

\* A step that belongs to the removal of a webrtcbin of identity c.
RemovalStep(c) ==
    \/ webrtc_client_disconnected_cb(c)
    \/ \E a \in Elems : bins[a].client = c /\ pad_block_probe(a)

\* C3: an attached webrtcbin that is not itself being detached is left
\* exactly as it is by every step of the removal of another identity's
\* webrtcbin, and is among the receivers of every packet the tee has served.
C3_OtherPeerUndisturbed ==
    [][\A b \in Elems :
         (Attached(b) /\ bins[b].probes = 0)
           => /\ \A c \in Clients :
                   (c # bins[b].client /\ RemovalStep(c)) => bins'[b] = bins[b]
              /\ tee_return => b \in delivered]_vars

\* C3 witness: one identity's webrtcbin has been removed after its leave
\* while another identity's webrtcbin, negotiated and attached, has just
\* received the packet in hand.
C3_Witness ==
    \E a \in Elems, b \in Elems :
        /\ bins[a].client # bins[b].client
        /\ bins[a].client \notin conn /\ REMOVED(a)
        /\ Attached(b) /\ bins[b].remoteDesc /\ b \in delivered

\* C4: a leave for an identity whose webrtcbin is already REMOVED changes
\* nothing of the pipeline: no probe, no removal, no state change, no other
\* webrtcbin touched.
C4_RedundantLeaveNoOp ==
    [][\A c \in Clients :
         (RedundantLeave(c) /\ webrtc_client_disconnected_cb(c))
           => UNCHANGED <<bins, data_channel, timeout_src_id, timers, nprobes,
                          appsrc, spc, pkt, cur, delivered, dropped, crashed>>]_vars

\* C4 witness: such a leave has been handled while another webrtcbin is
\* attached.
C4_Witness ==
    \E c \in redundant : \E b \in Elems : bins[b].client # c /\ Attached(b)

\* C5 (as claimed): a linked webrtcbin has its local description set.
C5_AttachedAfterLocalDescriptionSet ==
    \A e \in Elems : bins[e].linked => bins[e].localDesc = "set"

\* C5 (amended): a webrtcbin has its pads and its link to the tee only after
\* its offer was created, set-local-description was requested on it and the
\* offer was handed to the signalling server.
C5_AttachedAfterOffer ==
    \A e \in Elems :
        (bins[e].pad \/ bins[e].linked)
          => /\ bins[e].offer = "created"
             /\ bins[e].localDesc \in {"requested", "set"}
             /\ Len(bins[e].offers) = 1

\* C5 witness: a webrtcbin attached to the tee by on_offer_created, its
\* set-local-description request still queued, a packet being delivered into it.
C5_Witness ==
    \E e \in Elems :
        Attached(e) /\ bins[e].offer = "created" /\ bins[e].localDesc = "requested" /\ cur = e

\* C6: every webrtcbin sends no offer before its offer is created and exactly
\* one afterwards, addressed to the identity it was created for; webrtcbins of
\* distinct identities have distinct names.
C6_OneOfferPerPeer ==
    /\ \A e \in Elems :
          /\ bins[e].offer = "pending" => bins[e].offers = <<>>
          /\ bins[e].offer = "created" => bins[e].offers = <<bins[e].client>>
    /\ \A e \in Elems, f \in Elems :
          bins[e].client # bins[f].client
            => webrtcbin_name(bins[e].client) # webrtcbin_name(bins[f].client)

\* C6 witness: two identities joined and their offers were created in the
\* order opposite to the joins.
C6_Witness ==
    /\ Len(bins) >= 2
    /\ bins[1].client # bins[2].client
    /\ bins[1].inBin /\ bins[2].inBin
    /\ bins[1].offers # <<>> /\ bins[2].offers # <<>>
    /\ bins[2].remoteDesc /\ ~bins[1].remoteDesc

\* C7 (as claimed): every identity whose signalling connection is open has
\* exactly one webrtcbin in the pipeline, exactly one that is not REMOVED, at
\* most one keep-alive timer, and a timer whenever its data channel is open.
C7_OnePeerConnectionPerIdentity ==
    ~crashed =>
      \A c \in conn :
        /\ Cardinality({e \in Elems : bins[e].client = c /\ bins[e].inBin}) = 1
        /\ Cardinality({e \in Elems : bins[e].client = c /\ ~REMOVED(e)}) = 1
        /\ Cardinality({e \in timers : bins[e].client = c}) <= 1
        /\ \A e \in Elems :
              (bins[e].client = c /\ bins[e].inBin /\ bins[e].chan = "open") => e \in timers

\* The packet in hand carries an element with the reserved id and the
\* DownMessage bytes of its frame.
CarriesDownMessage(p) ==
    \E i \in DOMAIN p.ext :
        /\ p.ext[i].id = RTP_TWOBYTES_HDR_EXT_ID
        /\ p.ext[i].len = Len(p.meta)
        /\ p.ext[i].data = p.meta

C9_OversizedDropped ==
    /\ (pkt.has_meta /\ Len(pkt.meta) > RTP_TWOBYTES_HDR_EXT_MAX_SIZE)
          => (pkt.ext = <<>> /\ spc \in {"tee", "chain"})
    /\ (dropped /\ spc # "idle" /\ pkt.runs >= 1 /\ pkt.has_meta
          /\ Len(pkt.meta) <= RTP_TWOBYTES_HDR_EXT_MAX_SIZE)
          => CarriesDownMessage(pkt)

\* C9 witness: an oversized DownMessage was dropped earlier and the packet
\* being delivered now carries its own DownMessage.
C9_Witness ==
    /\ dropped
    /\ spc = "chain"
    /\ Len(pkt.meta) = 1
    /\ CarriesDownMessage(pkt)

Range(l) == {l[i] : i \in DOMAIN l}

\* C12: the buffer a push hands to appsrc has a presentation timestamp that
\* is not below the one of the push before it, and is zero as long as no
\* offset has been taken (the first push included).
C12_PtsNonDecreasing ==
    [][\A ts \in 0..MaxTs, n \in SrcSizes :
         push_frame(ts, Bytes(n), PushOk)
           => /\ appsrc'[Len(appsrc')].pts >= timestamp_ns - offset_ns
              /\ (offset_ns = 0 => appsrc'[Len(appsrc')].pts = 0)]_vars

\* C12 witness: a later frame waits in appsrc with a positive presentation
\* timestamp, the offset having been taken from an earlier frame.
C12_Witness ==
    /\ appsrc # <<>>
    /\ offset_ns = 1 /\ timestamp_ns = 2
    /\ appsrc[Len(appsrc)].pts = 1

\* C16 (as claimed): a push in which the payload buffer or the meta cannot
\* be made still hands the frame to appsrc, without the meta.
C16_FramePushedWithoutMeta ==
    [][\A ts \in 0..MaxTs, n \in SrcSizes, env \in PushEnvs :
         (push_frame(ts, Bytes(n), env) /\ (~env.struct_buf \/ ~env.custom_meta)
            /\ env.ret = "GST_FLOW_OK")
           => /\ Len(appsrc') = Len(appsrc) + 1
              /\ ~appsrc'[Len(appsrc')].has_meta]_vars

\* A push of a frame the pipeline rejects.
RejectedPush ==
    \E ts \in 0..MaxTs, n \in SrcSizes :
        push_frame(ts, Bytes(n), [PushOk EXCEPT !.ret = "GST_FLOW_FLUSHING"])

\* C17: a push the pipeline rejects logs the error and changes nothing else
\* but the timestamps of the frame source: the process goes on; and whenever
\* an error has been logged and appsrc has room, a push that succeeds is
\* possible.
C17_RejectedPushIsSoft ==
    /\ [][RejectedPush
            => (crashed' = crashed /\ appsrc' = appsrc
                /\ Len(src_log') = Len(src_log) + 1
                /\ src_log'[Len(src_log')].err = "flow")]_vars
    /\ []((src_log # <<>> /\ Len(appsrc) < MaxQueue)
             => ENABLED (\E n \in SrcSizes : push_frame(timestamp_ns, Bytes(n), PushOk)))

\* C17 witness: a frame was rejected and a frame captured after it waits in
\* appsrc.
C17_Witness ==
    /\ ~crashed
    /\ \E i \in DOMAIN src_log, j \in DOMAIN appsrc :
          /\ src_log[i].err = "flow"
          /\ appsrc[j].pts + offset_ns > src_log[i].ts

\* C11: a packet that carries no meta leaves the multiplexer with no
\* extension element, with the loss window as it was, and goes on to the tee.
C11_NoMetaPassThrough ==
    [][rtph264pay_config
         => (pkt'.ext = <<>> /\ pkt'.runs = nprobes /\ spc' = "tee"
             /\ UNCHANGED lossVars)]_vars

\* C11 witness: with diagnostics on and ids in the window, a packet without
\* meta has gone through the probe and is being delivered to a webrtcbin.
C11_Witness ==
    /\ benchmark_down_msg /\ sent_down_msg_list # <<>>
    /\ spc = "chain" /\ cur # 0
    /\ ~pkt.has_meta /\ pkt.runs >= 1 /\ pkt.ext = <<>>

\* The step records the id of the buffer at the head of appsrc and reports:
\* the ids of the window, this one included.
TickWindow ==
    <<pb_decode_DownMessage(Head(appsrc).meta).frame_sequence_id>> \o sent_down_msg_list

Tick ==
    /\ rtph264pay
    /\ benchmark_down_msg /\ nprobes = 1 /\ have_ever_sent_a_down_msg
    /\ pb_decode_DownMessage(Head(appsrc).meta).ok
    /\ now - last_print_time >= REPORT_INTERVAL_SECS

\* C13 (as claimed): the report over the ids 1, 2, 4, 7 counts 2 skipped.
C13_TickReportsTwo ==
    [][(Tick /\ Len(TickWindow) = 4 /\ Range(TickWindow) = {1, 2, 4, 7})
         => skip_log'.count = 2]_vars

\* C13 (amended): the report over the ids 1, 2, 4, 7 counts 3 skipped, one
\* between 2 and 4 and two between 4 and 7.
C13_TickReportsThree ==
    [][(Tick /\ Len(TickWindow) = 4 /\ Range(TickWindow) = {1, 2, 4, 7})
         => (skip_log'.printed /\ skip_log'.count = 3)]_vars

\* C13 witness: a report that counted 3 has been printed on the packet of
\* frame 7.
C13_Witness ==
    /\ skip_log.printed /\ skip_log.count = 3
    /\ spc = "tee" /\ pkt.meta = pb_encode_DownMessage(7)
    /\ sent_down_msg_list = <<>>

SetMax(S) == CHOOSE x \in S : \A y \in S : y <= x

SetMin(S) == CHOOSE x \in S : \A y \in S : x <= y

\* C14: whatever the order of the ids and their repetitions, the report
\* counts the ids missing between the least and the greatest of the window
\* (the sum of the positive gaps of the sorted ids); it empties the window
\* and restarts it at the time of the report.
C14_TickCountsGaps ==
    [][Tick
         => /\ skip_log'.printed
            /\ skip_log'.count = SetMax(Range(TickWindow)) - SetMin(Range(TickWindow)) + 1
                                    - Cardinality(Range(TickWindow))
            /\ skip_log'.secs = now - last_print_time
            /\ sent_down_msg_list' = <<>>
            /\ last_print_time' = now]_vars

\* C14 witness: a report over a window that was recorded out of order, or
\* with an id twice, has counted gaps and restarted the window.
C14_Witness ==
    /\ skip_log.printed /\ skip_log.count = 6
    /\ sent_down_msg_list = <<>> /\ last_print_time = now
    /\ spc = "tee" /\ pkt.meta = pb_encode_DownMessage(0)

\* C10 (as claimed): a packet being delivered to a webrtcbin went through the
\* multiplexer exactly once and carries at most one extension element.
C10_MultiplexerOncePerPacket ==
    cur # 0 => (pkt.runs = 1 /\ Len(pkt.ext) <= 1)

\* C15: handling bytes received on a data channel leaves every data channel,
\* every keep-alive timer and the pipeline's data-channel handle as they
\* were; the tracking callback is called, with the decoded message, exactly
\* in the steps that handle bytes that decode as an UpMessage.
C15_MalformedUpMessageDropped ==
    [][ /\ (rx # NoRx /\ rx' = NoRx) =>
             /\ \A e \in Elems : bins'[e].chan = bins[e].chan
             /\ timers' = timers /\ data_channel' = data_channel
             /\ IF pb_decode_UpMessage(rx.data).ok
                THEN events' = Append(events, pb_decode_UpMessage(rx.data).message)
                ELSE events' = events
        /\ events' # events => (rx # NoRx /\ rx' = NoRx) ]_vars

\* C15 witness: bytes that do not decode have been handled after a message
\* that was handed to the callback, the channel they came on is open again
\* for the next bytes, and the callback has seen only the one message.
C15_Witness ==
    /\ Len(events) = 1
    /\ up_log = 1
    /\ rx.e # 0
    /\ bins[rx.e].chan = "open"

\* C18 (as claimed): an answer handler that waits for the reply to
\* "set-remote-description" returns to the main loop, reply or no reply.
C18_AnswerWaitIsBounded == (mlpc = "wait") ~> (mlpc = "idle")

\* C19 (as claimed): when the data channel of one webrtcbin closes, the
\* keep-alive timer of every other webrtcbin keeps running and the pipeline's
\* data-channel handle, if it is another webrtcbin's, stays.
C19_CloseScopedToPeer ==
    [][ \A a \in Elems :
          (bins[a].chan = "open" /\ bins'[a].chan = "closed") =>
             \A b \in Elems \ {a} :
                /\ b \in timers => b \in timers'
                /\ data_channel = b => data_channel' = b ]_vars

\* C20 (as claimed): a keep-alive is sent only on a data channel that is open
\* and whose webrtcbin has not been removed.
C20_NoKeepAliveAfterRemoval ==
    [][ last_keepalive' # last_keepalive =>
          /\ bins[last_keepalive'].chan = "open"
          /\ ~REMOVED(last_keepalive') ]_vars

\* C21 (as claimed): a join whose data channel cannot be created leaves the
\* process running, and no offer is sent for the webrtcbin of that join.
C21_CreationFailureContained ==
    /\ ~crashed
    /\ \A e \in Elems : bins[e].chan = "none" => bins[e].offers = <<>>

\* C22 (as claimed): once the bus handler has handled an error message of the
\* pipeline the process has ended, so that no packet is delivered afterwards.
C22_FatalErrorTerminates ==
    (\E i \in DOMAIN bus_log : bus_log[i].type = "GST_MESSAGE_ERROR") => crashed

\* C23 (as claimed): while the streaming thread is inside
\* benchmark_down_msg_loss, no step of another thread writes the loss window
\* (its id list, its window-start time, its initialised flag).
C23_LossWindowExclusive ==
    [][ (spc = "loss" /\ spc' = "loss") => UNCHANGED lossVars ]_vars

\* C24: no join and no leave touches the queue of appsrc, the position of the
\* streaming thread or the packet in hand; a frame is accepted whenever
\* appsrc has room, a frame waiting in appsrc is taken on by the streaming
\* thread as soon as it is idle, and the streaming thread can always take its
\* next step through the tee, whichever webrtcbins are attached, detaching or
\* removed, and also when there is none.
C24_EncodeGraphIndependentOfPeers ==
    /\ [][conn' # conn => UNCHANGED <<appsrc, spc, pkt>>]_vars
    /\ []((~crashed /\ Len(appsrc) < MaxQueue) =>
             ENABLED (\E n \in LifecycleSizes : ems_gstreamer_src_push_frame(n)))
    /\ []((~crashed /\ spc = "idle" /\ appsrc # <<>>) => ENABLED rtph264pay)
    /\ []((~crashed /\ spc # "idle") => ENABLED Streaming)

\* C24 witness: the only webrtcbin has been removed after its client left, a
\* packet is at the tee with no pad linked, and the next frame waits in appsrc.
C24_Witness ==
    /\ ~crashed
    /\ spc = "tee"
    /\ conn = {}
    /\ bins # <<>>
    /\ \A e \in Elems : REMOVED(e)
    /\ appsrc # <<>>

\* C25 (as claimed): every reference a push took and that is not released
\* yet belongs to a wrapping buffer the pipeline still holds; none is leaked.
C25_FrameReferenceReleased == xf_refs = Len(appsrc)

\* C26 (as claimed): a webrtcbin whose client has left, and which is not
\* linked to the tee, is not linked to the tee by any later step.
C26_NoAttachAfterLeave ==
    [][ \A e \in Elems :
          (bins[e].client \notin conn /\ ~bins[e].linked) => ~bins'[e].linked ]_vars

\* C27: no leave, however many come and whenever, takes a webrtcbin out of
\* the pipeline or stops it by itself; the step in which the probes of a pad
\* fire takes a webrtcbin that was in the pipeline to REMOVED and leaves no
\* probe behind, however many were waiting; and a webrtcbin that is REMOVED
\* stays as it is for good.
C27_RemovedExactlyOnce ==
    [][ \A e \in Elems :
          /\ (conn' # conn) => ~TornDown(e)
          /\ bins'[e].probes < bins[e].probes =>
                /\ bins[e].inBin /\ bins[e].state = "PLAYING"
                /\ REMOVED(e)'
                /\ bins'[e].probes = 0
          /\ TornDown(e) => bins[e].probes > 0
          /\ REMOVED(e) => bins'[e] = bins[e] ]_vars

\* C27 witness: two leaves were handled for a client whose webrtcbin is
\* attached, both probes wait on its tee src pad, and the streaming thread is
\* at the tee with a packet that pad has not been served yet.
C27_Witness ==
    \E e \in Elems :
        /\ bins[e].probes >= 2
        /\ bins[e].client \notin conn
        /\ Attached(e)
        /\ spc = "tee"
        /\ e \notin delivered

\* The webrtcbin in the pipeline that was created for client c, 0 if none.
EndpointOf(c) ==
    IF \E e \in Elems : bins[e].inBin /\ bins[e].client = c
    THEN CHOOSE e \in Elems : bins[e].inBin /\ bins[e].client = c
    ELSE 0

\* A step in which the candidate message in hand is handled.
CandidateHandled == candidate_msg # NoCandidate /\ candidate_msg' = NoCandidate

\* C28 (as claimed): every candidate message for a client whose webrtcbin is
\* in the pipeline is applied to that webrtcbin.
C28_EveryCandidateApplied ==
    [][ (CandidateHandled /\ EndpointOf(candidate_msg.client_id) # 0) =>
           <<EndpointOf(candidate_msg.client_id), candidate_msg.client_id,
             candidate_msg.candidate>> \in ice' ]_vars

\* C28 (amended): a candidate message with a non-empty candidate string, for
\* a client whose webrtcbin is in the pipeline, is applied to that webrtcbin
\* and to no other, before the answer and after it; a message with an empty
\* candidate string, or for a client that has no webrtcbin, applies nothing;
\* in both cases no webrtcbin and nothing else of the pipeline changes.  So
\* every candidate ever applied was applied to the webrtcbin of its client.
C28_CandidateAppliedToOwnEndpoint ==
    /\ [][ CandidateHandled =>
             /\ ice' = IF candidate_msg.candidate # "" /\ EndpointOf(candidate_msg.client_id) # 0
                       THEN ice \cup {<<EndpointOf(candidate_msg.client_id),
                                        candidate_msg.client_id, candidate_msg.candidate>>}
                       ELSE ice
             /\ UNCHANGED <<bins, conn, data_channel, timeout_src_id, timers, nprobes,
                            crashed, appsrc, spc, pkt>> ]_vars
    /\ [][ ice' # ice => CandidateHandled ]_vars
    /\ [](\A a \in ice : a[1] \in Elems /\ bins[a[1]].client = a[2] /\ a[3] # "")

\* C28 witness: candidates have been applied to the webrtcbins of two
\* clients, one that has its answer and one that has not, and a message for
\* a client that never joined has been handled (none is in hand).
C28_Witness ==
    /\ candidate_msg = NoCandidate
    /\ Len(bins) = 2 /\ Cardinality(conn) = 2
    /\ \E a \in ice : bins[a[1]].remoteDesc
    /\ \E a \in ice : ~bins[a[1]].remoteDesc

\* A step in which the answer message in hand is taken up by the handler.
AnswerHandled == sdp_answer # NoAnswer /\ sdp_answer' = NoAnswer

\* C29: an answer that parses, for a client whose webrtcbin is in the
\* pipeline, makes the handler wait for the remote description of that
\* webrtcbin and changes no webrtcbin yet; an answer that does not parse, or
\* for a client with no webrtcbin, changes no webrtcbin and starts no wait;
\* a webrtcbin gets its remote description only in the step that completes
\* the request made for it, and no other webrtcbin changes in that step.
C29_AnswerAppliedToOwnEndpoint ==
    /\ [][ AnswerHandled =>
             /\ bins' = bins
             /\ IF /\ gst_sdp_message_new_from_text(sdp_answer.sdp) = "GST_SDP_OK"
                   /\ EndpointOf(sdp_answer.client_id) # 0
                THEN promise' = EndpointOf(sdp_answer.client_id)
                ELSE promise' = promise /\ mlpc' = mlpc ]_vars
    /\ [][ \A e \in Elems :
             (~bins[e].remoteDesc /\ bins'[e].remoteDesc) =>
                /\ promise = e /\ promise' = 0
                /\ \A f \in Elems \ {e} : bins'[f] = bins[f] ]_vars
    /\ [](promise # 0 => (mlpc = "wait" /\ promise \in Elems))

\* C29 witness: one client's answer has been applied, the other client, who
\* was sent an offer, has none applied, and no answer is in hand or waited
\* for.
C29_Witness ==
    /\ sdp_answer = NoAnswer /\ promise = 0
    /\ Len(bins) = 2
    /\ bins[1].remoteDesc
    /\ ~bins[2].remoteDesc /\ bins[2].offers # <<>>

\* C30 (as claimed): once a frame has been pushed (it waits in appsrc, or its
\* failed push is in the log) the offset taken from the first pushed frame
\* does not change.
C30_OffsetFixedByFirstPush ==
    [][ (appsrc # <<>> \/ src_log # <<>>) => offset_ns' = offset_ns ]_vars

\* C31: the buffer a push hands to appsrc has as its duration the capture
\* timestamp of its frame minus the one of the push before it, and a push
\* that fails or is rejected leaves its frame's capture timestamp as the last
\* timestamp all the same.
C31_DurationFromLastTimestamp ==
    [][ /\ Len(appsrc') > Len(appsrc) =>
             appsrc'[Len(appsrc')].duration = timestamp_ns' - timestamp_ns
        /\ Len(src_log') > Len(src_log) =>
             timestamp_ns' = src_log'[Len(src_log')].ts ]_vars

\* C31 witness: a push failed at a capture time after 0, and the frame pushed
\* after it waits in appsrc with its duration measured from that time.
C31_Witness ==
    /\ src_log # <<>> /\ appsrc # <<>>
    /\ src_log[1].ts > 0
    /\ appsrc[1].duration > 0
    /\ appsrc[1].duration = timestamp_ns - src_log[1].ts

\* C32 (as claimed): ids leave the loss window only in a step that prints a
\* report, which leaves the window empty; in every other step the ids
\* recorded stay in the window.
C32_WindowEmptiedOnlyByReport ==
    [][ \/ Range(sent_down_msg_list) \subseteq Range(sent_down_msg_list')
        \/ sent_down_msg_list' = <<>> ]_vars

\* C33 (as claimed): once ems_gstreamer_pipeline_stop has been called the
\* process is not aborted.
C33_StopDoesNotAbort == (stop_pc # "playing") => ~crashed

\* The images handed out by new_image for which release_image has not been
\* called.
HandedOut == UNION {held[t] : t \in Threads}

\* C34: an image that new_image returns is not handed out at that moment,
\* and no image of the pool is held by two threads at once.
C34_NoImageHasTwoHolders ==
    /\ [][\A t \in Threads :
            (callers[t].pc = "new_ret" /\ callers'[t].pc = "idle"
             /\ callers'[t].ret \in PoolImages)
            => callers'[t].ret \notin HandedOut]_vars
    /\ [](\A t1, t2 \in Threads : t1 # t2 => held[t1] \cap held[t2] = {})

\* C34 witness: with both threads calling, each was handed an image of its
\* own, and a third call is refused while both are held.
C34_Witness ==
    /\ held[1] = {2} /\ held[2] = {1}
    /\ callers[1].ret = 2
    /\ callers[2].pc = "new_ret" /\ callers[2].image = 0
    /\ \A i \in PoolImages : images[i]

\* The images whose used flag is set.
InUse == {i \in PoolImages : images[i]}

\* C35: outside the pool's functions the in-use set is the set of images
\* handed out and not released, and it has at most PoolSize members;
\* new_image finds no image, and returns nullptr, exactly when every image
\* is in use; release_image of a pointer that is not in the pool, or of an
\* image that is not in use, changes neither the flags nor the holders.
C35_InUseIsHandedOut ==
    /\ [](pool_mutex = 0 => InUse = HandedOut)
    /\ [](Cardinality(InUse) <= PoolSize)
    /\ [][\A t \in Threads :
            /\ (callers[t].pc = "new_scan" /\ callers'[t].pc # "new_scan")
               => ((callers'[t].image = 0) <=> (InUse = PoolImages))
            /\ (callers[t].pc = "new_ret" /\ callers'[t].pc = "idle")
               => callers'[t].ret = callers[t].image
            /\ (callers[t].pc = "release" /\ callers'[t].pc = "idle"
                /\ callers[t].image \notin InUse)
               => (images' = images /\ held' = held)]_vars

\* C35 witness: one thread holds every image of the pool and the other
\* thread's new_image is about to return nullptr.
C35_Witness ==
    /\ held[1] = PoolImages
    /\ InUse = PoolImages
    /\ callers[2].pc = "new_ret" /\ callers[2].image = 0

\* C36 (as claimed): a call of read_system_property that has returned gave
\* the empty string or the value of the property it was called for.
C36_ReturnsOwnPropertyOrEmpty ==
    reader.pc = "returned" =>
        reader.ret \in {"", system_property(reader.property_name)}

\* C37: the stored blend mode changes only in a call of set_blend_mode that
\* returns true, and then to the requested mode; a call made with an invalid
\* context, for the mode already stored, or whose handler fails returns
\* false and leaves the stored mode as it was.
C37_BlendModeChangesOnlyOnTrue ==
    [][ /\ passthrough'.m_eb_mode # passthrough.m_eb_mode
           => /\ blend_call'.n = blend_call.n + 1
              /\ blend_call'.ret
              /\ passthrough'.m_eb_mode = blend_call'.new_mode
        /\ ( /\ blend_call'.n = blend_call.n + 1
             /\ \/ ~passthrough.xr_valid
                \/ blend_call'.new_mode = passthrough.m_eb_mode
                \/ blend_call'.handler = "failed" )
           => /\ ~blend_call'.ret
              /\ passthrough'.m_eb_mode = passthrough.m_eb_mode ]_vars

\* C37 witness: after a switch to ADDITIVE that succeeded, a call for
\* ALPHA_BLEND whose handler failed has returned false and the stored mode
\* is still ADDITIVE.
C37_Witness ==
    /\ passthrough.constructed /\ passthrough.xr_valid
    /\ blend_call.n = 2
    /\ blend_call.new_mode = "ALPHA_BLEND"
    /\ blend_call.handler = "failed"
    /\ ~blend_call.ret
    /\ passthrough.m_eb_mode = "ADDITIVE"

\* C38 (as claimed): when the probe has returned, none of the buffer
\* mappings it took on the packet is still held.
C38_ProbeReleasesItsMappings == pkt.maps = {}
====
